---- MODULE Spec2Model ----
(***************************************************************************)
(* Confidence-routing decision pipeline of                                 *)
(* TESTFILES/ECMSPIPELINE/masteragent_ecms.py (run_multifile and helpers). *)
(*                                                                         *)
(* Representation.                                                         *)
(*   - A Python str is a sequence of one-character strings.                *)
(*   - A float similarity / confidence is an integer number of hundredths  *)
(*     (0.45 is 45, 0.99 is 99, 1.0 is 100).                               *)
(*   - An embedding is a two-component integer vector whose Euclidean      *)
(*     norm is an integer, so that cosine similarities are computed from   *)
(*     the vectors and not postulated.                                     *)
(*   - A JSON value of the LLM verdict is a tagged record [t, n, s].       *)
(***************************************************************************)
EXTENDS Integers, Sequences, FiniteSets, TLC

(***************************************************************************)
(* Program constants (hundredths where the source has a fraction).         *)
(***************************************************************************)
TOP_K == 5
MIN_SIM == 45
SIM_GAP == 6
MAX_RETRIES == 2
NO_MATCH_THR == 40
DefaultHumanReviewThr == 45
SweepHumanReviewThr == 41
THROTTLE_EVERY_N_REQUESTS == 1
AutoConfCap == 99
ExtraAttempts == 5
BACKOFF == 8
BackoffCap == 60
OtherStatusWaitCap == 30

(***************************************************************************)
(* The threshold configurations.  The script as written carries the        *)
(* default pair; the sweep driver rewrites the HUMAN_REVIEW_THR assignment *)
(* of a copy with each entry of HR_THRESHOLDS, printed with two decimals,  *)
(* and leaves every other line, NO_MATCH_THR included, as it was.          *)
(***************************************************************************)
HR_THRESHOLDS == << SweepHumanReviewThr >>

Script == [NO_MATCH_THR |-> NO_MATCH_THR, HUMAN_REVIEW_THR |-> DefaultHumanReviewThr]

patch_masteragent_OneDecimal(script, hr_thr) ==
  [script EXCEPT !.HUMAN_REVIEW_THR = 10 * (hr_thr \div 10)]

patch_masteragent(script, hr_thr) ==
  [script EXCEPT !.HUMAN_REVIEW_THR = hr_thr]

SweepCopies ==
  { patch_masteragent(Script, HR_THRESHOLDS[i]) : i \in 1..Len(HR_THRESHOLDS) }

Configurations == {Script} \cup SweepCopies

SweepIdle ==
  [hr_thr |-> DefaultHumanReviewThr, script |-> Script, patched |-> FALSE,
   ran |-> FALSE]

(***************************************************************************)
(* Bounds of the model.                                                    *)
(***************************************************************************)
MaxVars == 2
MaxFaults == 1
ThrSpan == 99

(***************************************************************************)
(* Characters and strings.                                                 *)
(***************************************************************************)
\* str.lower on the letters a name can carry
UpperToLower ==
  [A |-> "a", B |-> "b", C |-> "c", D |-> "d", E |-> "e", F |-> "f", G |-> "g",
   H |-> "h", I |-> "i", J |-> "j", K |-> "k", L |-> "l", M |-> "m", N |-> "n",
   O |-> "o", P |-> "p", Q |-> "q", R |-> "r", S |-> "s", T |-> "t", U |-> "u",
   V |-> "v", W |-> "w", X |-> "x", Y |-> "y", Z |-> "z"]
UpperChars ==
  {"A","B","C","D","E","F","G","H","I","J","K","L","M",
   "N","O","P","Q","R","S","T","U","V","W","X","Y","Z"}
LowerChars ==
  {"a","b","c","d","e","f","g","h","i","j","k","l","m",
   "n","o","p","q","r","s","t","u","v","w","x","y","z"}
DigitChars == {"0","1","2","3","4","5","6","7","8","9"}

IsSpace(c) == c \in {" ", "\t", "\n", "\r"}

IsWordChar(c) ==
  \/ c \in UpperChars
  \/ c \in LowerChars
  \/ c \in DigitChars
  \/ c = "_"

LowerChar(c) == IF c \in UpperChars THEN UpperToLower[c] ELSE c

LowerStr(s) == [i \in 1..Len(s) |-> LowerChar(s[i])]

RECURSIVE LStrip(_)
LStrip(s) == IF s # <<>> /\ IsSpace(Head(s)) THEN LStrip(Tail(s)) ELSE s

RECURSIVE RStrip(_)
RStrip(s) ==
  IF s # <<>> /\ IsSpace(s[Len(s)]) THEN RStrip(SubSeq(s, 1, Len(s) - 1)) ELSE s

Strip(s) == RStrip(LStrip(s))

\* norm(s): str(s).strip().lower()
norm(s) == LowerStr(Strip(s))

\* The alternatives of the is_ood pattern, lower-cased (the search is re.I).
OODPatterns ==
  { <<"p","k","t">>, <<"p","l","c">>, <<"f","w">>,
    <<"d","b","g","v","a","r">>, <<"c","h","e","c","k","s","u","m">> }

\* pattern p matches name at position i: \b before i, then p case-insensitively
MatchAt(name, p, i) ==
  /\ i + Len(p) - 1 <= Len(name)
  /\ \A k \in 1..Len(p) : LowerChar(name[i + k - 1]) = p[k]
  /\ ~IsWordChar(IF i = 1 THEN " " ELSE name[i - 1])

is_ood(name) ==
  \E p \in OODPatterns : \E i \in 1..Len(name) : MatchAt(name, p, i)

(***************************************************************************)
(* Inputs of a run.                                                        *)
(***************************************************************************)
\* Variable names an ontology file can carry (hasFMUVariableName literals).
VarNames ==
  { <<" ","F","w">>,           \* out-of-domain, and normalises to "fw"
    <<"x"," ","f","w">>,       \* out-of-domain after a word boundary
    <<"x","F","W">>,           \* "FW" without a word boundary before it
    <<"y">> }

\* Names of the *.ttl files of the folder, in sorted order.
FileNames == <<"a.ttl", "b.ttl">>

\* An empty cell is read as NaN.
SkipCsvFiles ==
  { [exists |-> TRUE,
     columns |-> << <<"i","d">>, <<"N","a","m","e">> >>,
     rows |-> << << <<"1">>, <<"F","W"," ">> >>, << <<"2">>, <<"Z">> >>, << <<"3">>, <<>> >> >>],
    [exists |-> TRUE,
     columns |-> << <<"i","d">>, <<"l","a","b","e","l">> >>,
     rows |-> << << <<"1">>, <<"x">> >> >>],
    [exists |-> FALSE, columns |-> <<>>, rows |-> <<>>] }

\* The precomputed ontology store: vectors with parallel ids and texts.
StoreVecs == << <<0,-5>>, <<3,4>>, <<4,3>>, <<5,0>>, <<4,-3>>, <<4,3>> >>
StoreIds  == <<"id1", "id2", "id3", "id4", "id5", "id6">>
StoreTxts == <<"txt1", "txt2", "txt3", "txt4", "txt5", "txt6">>
IndexSizes == {0, 1, 6}

\* Vectors the embedding service can answer with.
ServiceVecs == { <<-8,15>>, <<5,0>>, <<3,4>>, <<-3,-4>> }

(***************************************************************************)
(* JSON values of an LLM verdict.                                          *)
(***************************************************************************)
JMissing == [t |-> "missing", s |-> "", n |-> 0, m |-> 0]
JNull    == [t |-> "null",    s |-> "", n |-> 0, m |-> 0]
JNum(x)  == [t |-> "num",     s |-> "", n |-> x, m |-> 0]
JStr(x)  == [t |-> "str",     s |-> x,  n |-> 0, m |-> 0]
\* an f-string reason: a text with two formatted numbers
JFmt(x, a, b) == [t |-> "str", s |-> x, n |-> a, m |-> b]

Verdict(b, c, r) == [best_match |-> b, confidence |-> c, reason |-> r]

\* Members the JSON object of a chat answer can carry.
ServiceVerdicts ==
  { Verdict(JStr("id1"), JNum(90), JStr("clear match")),
    Verdict(JStr("id2"), JNum(45), JStr("unsure")),
    Verdict(JNull,       JNull,    JNull),
    Verdict(JStr("id2"), JMissing, JNull),
    Verdict(JStr("id1"), JStr("high"), JStr("clear match")) }

\* Message contents of a 200 chat answer, as sequences of pieces: "t" is
\* text without braces, "v" the members of one object.
LlmContents ==
  { <<"t", "{", "v", "}", "t">>,            \* an object inside prose
    <<"{", "}">>,                           \* an object with no member
    <<"t">>,                                \* no braces at all
    <<"}", "t", "{">>,                      \* unbalanced: closing before opening
    <<"{", "v", "}", "{", "v", "}">> }      \* two objects: extra data

VARIABLES
  HUMAN_REVIEW_THR,  \* the module constant the sweep driver patches
  ttl_files,         \* sorted *.ttl files: sequence of [name, vars]
  onto_store,        \* the three index artifacts on disk
  skip_csv,          \* skip_variables.csv on disk
  onto_vecs, onto_ids, onto_txts, skip_set,
  pc,                \* position in run_multifile
  fi,                \* index of the current file in ttl_files
  skipped, kept,     \* names of the current file still to be processed
  cur,               \* locals of the variable being processed
  attempt,           \* loop variable of the retry loop in progress
  api_calls,         \* _api_calls
  throttle_sleeps,   \* time.sleep(THROTTLE_SLEEP_SECONDS) taken so far
  EMBED_CACHE,       \* _EMBED_CACHE: set of [key, vec]
  slept,             \* the last back-off sleep of the call in progress
  faults,            \* retryable failures the services may still produce
  all_results, all_audit,
  call_log,          \* per row: the client calls made for its variable
  out_csv, audit_csv, \* the written tables: [written, rows]
  probe,             \* the two retry loops fed one sequence of failures
  first_run,         \* the tables and calls of an earlier run of the process
  sweep              \* the sweep driver: [hr_thr, script, patched]

vars ==
  << HUMAN_REVIEW_THR, ttl_files, onto_store, skip_csv, onto_vecs, onto_ids,
     onto_txts, skip_set, pc, fi, skipped, kept, cur, attempt, api_calls,
     throttle_sleeps,
     EMBED_CACHE, slept, faults, all_results, all_audit, call_log, out_csv,
     audit_csv, probe, first_run, sweep >>

(***************************************************************************)
(* load_skip_set_required                                                  *)
(***************************************************************************)
\* NameColumnCandidates accepting a column named label as well
NameColumnCandidates_WithLabel ==
  << <<"o","r","i","g","i","n","a","l","_","n","a","m","e">>,
     <<"o","e","m","_","v","a","r","i","a","b","l","e">>,
     <<"v","a","r","i","a","b","l","e">>,
     <<"n","a","m","e">>,
     <<"l","a","b","e","l">> >>

NameColumnCandidates ==
  << <<"o","r","i","g","i","n","a","l","_","n","a","m","e">>,
     <<"o","e","m","_","v","a","r","i","a","b","l","e">>,
     <<"v","a","r","i","a","b","l","e">>,
     <<"n","a","m","e">> >>

\* cols = {c.lower(): c}: the last column with a given lower-cased header wins
ColumnOf(csv, cand) ==
  LET hits == { i \in 1..Len(csv.columns) : LowerStr(csv.columns[i]) = cand }
  IN  IF hits = {} THEN 0 ELSE CHOOSE i \in hits : \A j \in hits : j <= i

\* index of the column holding the names, 0 when there is none
NameColumn(csv) ==
  LET found == { k \in 1..Len(NameColumnCandidates) :
                   ColumnOf(csv, NameColumnCandidates[k]) # 0 }
  IN  IF found = {} THEN 0
      ELSE ColumnOf(csv, NameColumnCandidates[
             CHOOSE k \in found : \A j \in found : k <= j])

SkipListUsable(csv) == csv.exists /\ NameColumn(csv) # 0

\* set(df[name_col].dropna().map(norm))
load_skip_set_required(csv) ==
  LET c == NameColumn(csv)
  IN  { norm(csv.rows[r][c]) : r \in { q \in 1..Len(csv.rows) : csv.rows[q][c] # <<>> } }

(***************************************************************************)
(* extract_fmu_variable_names: stable unique of the literals found         *)
(***************************************************************************)
RECURSIVE StableUnique(_, _)
StableUnique(vars_list, seen) ==
  IF vars_list = <<>> THEN <<>>
  ELSE IF Head(vars_list) \in seen THEN StableUnique(Tail(vars_list), seen)
  ELSE <<Head(vars_list)>> \o
       StableUnique(Tail(vars_list), seen \cup {Head(vars_list)})

extract_fmu_variable_names(file) == StableUnique(file.vars, {})

IsSkipped(v) == norm(v) \in skip_set
\* the partition lost: skip-listed names stay among the kept ones
KeptOf_All(extracted) == extracted

KeptOf(extracted) == SelectSeq(extracted, LAMBDA v : ~IsSkipped(v))
SkippedOf(extracted) == SelectSeq(extracted, IsSkipped)

(***************************************************************************)
(* cosine_similarity and the top-K selection                               *)
(***************************************************************************)
Dim == 2
Zeros == [i \in 1..Dim |-> 0]

Dot(v, w) == v[1] * w[1] + v[2] * w[2]

Abs(x) == IF x < 0 THEN -x ELSE x

\* np.linalg.norm on the vectors of the model (integer norms)
Norm(v) ==
  LET q == Dot(v, v)
      lo == IF Abs(v[1]) < Abs(v[2]) THEN Abs(v[2]) ELSE Abs(v[1])
  IN  CHOOSE r \in lo..(Abs(v[1]) + Abs(v[2])) : r * r <= q /\ q < (r + 1) * (r + 1)

\* Cosine taking a vector of norm 0 for a perfect match
Cosine_ZeroAsOne(v, row) ==
  LET d == Norm(v) * Norm(row)
  IN  IF d = 0 THEN 100 ELSE (200 * Dot(v, row) + d) \div (2 * d)

\* one entry of np.dot(M / (|M| + 1e-9), v / (|v| + 1e-9)), in hundredths
Cosine(v, row) ==
  LET d == Norm(v) * Norm(row)
  IN  IF d = 0 THEN 0 ELSE (200 * Dot(v, row) + d) \div (2 * d)

RECURSIVE cosine_similarity(_, _)
cosine_similarity(v, M) ==
  IF M = <<>> THEN <<>>
  ELSE cosine_similarity(v, SubSeq(M, 1, Len(M) - 1)) \o <<Cosine(v, M[Len(M)])>>

\* np.argsort(sims)[::-1]: ascending stable order, reversed
RECURSIVE ArgsortDesc(_, _)
ArgsortDesc(sims, S) ==
  IF S = {} THEN <<>>
  ELSE LET i == CHOOSE i \in S :
                  \A j \in S : sims[j] < sims[i] \/ (sims[j] = sims[i] /\ j <= i)
       IN  <<i>> \o ArgsortDesc(sims, S \ {i})

\* idx = np.argsort(sims)[::-1][:TOP_K]
TopIdx(sims) ==
  LET order == ArgsortDesc(sims, DOMAIN sims)
  IN  SubSeq(order, 1, IF Len(order) < TOP_K THEN Len(order) ELSE TOP_K)

\* query = f"Variable '{name}' from OEM dataset"
QueryOf(name) == <<"Variable '">> \o name \o <<"' from OEM dataset">>
\* route_by_conf with strict comparisons: a boundary value goes one bucket up
route_by_conf_Strict(conf) ==
  IF conf < NO_MATCH_THR THEN "NO_MATCH"
  ELSE IF conf < HUMAN_REVIEW_THR THEN "HUMAN_REVIEW"
  ELSE "ACCEPT"

\* route_by_conf(conf)
route_by_conf(conf) ==
  IF conf <= NO_MATCH_THR THEN "NO_MATCH"
  ELSE IF conf <= HUMAN_REVIEW_THR THEN "HUMAN_REVIEW"
  ELSE "ACCEPT"

(***************************************************************************)
(* Rows of the two tables.                                                 *)
(***************************************************************************)
Row(file, name, best, conf, reason, status) ==
  [file |-> file, original_name |-> name, best_match |-> best,
   confidence |-> conf, reason |-> reason, status |-> status]

\* {**row, "method":..., "top_sim":..., "margin":..., "top_candidates":...}
AuditRow(row, method, top_sim, margin, cands) ==
  [file |-> row.file, original_name |-> row.original_name,
   best_match |-> row.best_match, confidence |-> row.confidence,
   reason |-> row.reason, status |-> row.status,
   method |-> method, top_sim |-> top_sim, margin |-> margin,
   top_candidates |-> cands]

\* [{"id": t["id"], "sim": round(t["sim"], 4)} for t in top]
Compact(top) == [k \in 1..Len(top) |-> [id |-> top[k].id, sim |-> top[k].sim]]

NoVerdict == Verdict(JMissing, JMissing, JMissing)

\* locals of the loop body before a variable is taken up
CurIdle ==
  [name |-> <<>>, query |-> <<>>, qvec |-> Zeros, sims |-> <<>>, idx |-> <<>>,
   top_sim |-> 0,
   margin |-> 0, top |-> <<>>, llm |-> NoVerdict,
   status |-> "none",       \* outcome of the latest request of the call
   content |-> <<>>,        \* message content of the latest 200 chat answer
   embed_calls |-> 0, sim_calls |-> 0, llm_calls |-> 0, llm_args |-> <<>>]

\* what call_log keeps of a finished variable
CallsOf(c) ==
  [embed_calls |-> c.embed_calls, sim_calls |-> c.sim_calls,
   llm_calls |-> c.llm_calls, llm_args |-> c.llm_args,
   qvec |-> c.qvec, sims |-> c.sims, verdict |-> c.llm]

BaseFile == ttl_files[fi].name
\* Emit that writes no audit row for a skipped variable
Emit_NoSkipAudit(row, method, top_sim, margin, cands, c) ==
  /\ all_results' = Append(all_results, row)
  /\ all_audit' = IF method = "SKIP_LIST" THEN all_audit
                  ELSE Append(all_audit, AuditRow(row, method, top_sim, margin, cands))
  /\ call_log' = Append(call_log, CallsOf(c))

\* all_results.append(row); all_audit.append({**row, ...})
Emit(row, method, top_sim, margin, cands, c) ==
  /\ all_results' = Append(all_results, row)
  /\ all_audit' = Append(all_audit, AuditRow(row, method, top_sim, margin, cands))
  /\ call_log' = Append(call_log, CallsOf(c))

(***************************************************************************)
(* Initial states: the inputs of one run, nothing loaded yet.              *)
(***************************************************************************)
SeqsUpTo(S, n) == UNION { [1..k -> S] : k \in 0..n }

\* the files of a run: a list of literals cut into consecutive files
FilesOf(flat, cuts) ==
  [j \in 1..Len(cuts) |->
     [name |-> FileNames[j],
      vars |-> SubSeq(flat, (IF j = 1 THEN 0 ELSE cuts[j - 1]) + 1, cuts[j])]]

TtlFileSets ==
  { FilesOf(flat, cuts) :
      <<flat, cuts>> \in
        { fc \in SeqsUpTo(VarNames, MaxVars) \X SeqsUpTo(0..MaxVars, Len(FileNames)) :
            /\ \A j \in 1..Len(fc[2]) : fc[2][j] <= Len(fc[1])
            /\ \A j \in 1..(Len(fc[2]) - 1) : fc[2][j] <= fc[2][j + 1]
            /\ (fc[2] = <<>> => fc[1] = <<>>)
            /\ (fc[2] # <<>> => fc[2][Len(fc[2])] = Len(fc[1])) } }

\* the artifacts are three separate files: np.load and json.load check nothing
\* about each other, so a store can hold ids and texts without vectors
OntoStores ==
  { [vecs |-> SubSeq(StoreVecs, 1, n), ids |-> SubSeq(StoreIds, 1, n),
     txts |-> SubSeq(StoreTxts, 1, n)] : n \in IndexSizes }
  \cup { [vecs |-> <<>>, ids |-> SubSeq(StoreIds, 1, 1),
          txts |-> SubSeq(StoreTxts, 1, 1)] }

RECURSIVE TotalVars(_)
TotalVars(files) ==
  IF files = <<>> THEN 0 ELSE Len(Head(files).vars) + TotalVars(Tail(files))

\* the distinct literals of a run
NamesIn(files) ==
  UNION { { files[j].vars[k] : k \in DOMAIN files[j].vars } : j \in DOMAIN files }

\* Retryable failures the services produce during a run: enough to exhaust
\* one retry loop in a run over one literal, and in a run that repeats a
\* single name against an empty index; MaxFaults in every other run.
FaultBudget(files, store) ==
  IF \/ TotalVars(files) <= 1
     \/ (Cardinality(NamesIn(files)) <= 1 /\ store.vecs = <<>>)
  THEN MAX_RETRIES + ExtraAttempts
  ELSE MaxFaults

NotWritten == [written |-> FALSE, rows |-> <<>>]

\* a retry loop before its first request
LoopIdle == [attempt |-> 0, sleeps |-> <<>>, returned |-> FALSE]
ProbeIdle == [outcomes |-> <<>>, embed |-> LoopIdle, llm |-> LoopIdle]

\* no earlier run
NoFirstRun ==
  [done |-> FALSE, warm |-> FALSE, out |-> <<>>, names |-> <<>>, log |-> <<>>]

Init ==
  /\ HUMAN_REVIEW_THR \in { c.HUMAN_REVIEW_THR : c \in Configurations }
  /\ ttl_files \in TtlFileSets
  /\ onto_store \in OntoStores
  /\ skip_csv \in SkipCsvFiles
  /\ onto_vecs = <<>> /\ onto_ids = <<>> /\ onto_txts = <<>>
  /\ skip_set = {}
  /\ pc = "start"
  /\ fi = 0
  /\ skipped = <<>> /\ kept = <<>>
  /\ cur = CurIdle
  /\ attempt = 0
  /\ api_calls = 0
  /\ throttle_sleeps = 0
  /\ EMBED_CACHE = {}
  /\ slept = 0
  /\ faults = FaultBudget(ttl_files, onto_store)
  /\ all_results = <<>> /\ all_audit = <<>> /\ call_log = <<>>
  /\ out_csv = NotWritten /\ audit_csv = NotWritten
  /\ probe = ProbeIdle
  /\ first_run = NoFirstRun
  /\ sweep = SweepIdle

\* what a run never changes
inputs ==
  << HUMAN_REVIEW_THR, ttl_files, onto_store, skip_csv, probe, first_run,
     sweep >>
loaded == << onto_vecs, onto_ids, onto_txts, skip_set >>
tables == << all_results, all_audit, call_log >>
outputs == << out_csv, audit_csv >>
network ==
  << attempt, api_calls, throttle_sleeps, EMBED_CACHE, slept, faults >>

(***************************************************************************)
(* run_multifile, lines 228-240: load the index and the skip list, list    *)
(* the files.                                                              *)
(***************************************************************************)
LoadInputs ==
  /\ pc = "start"
  /\ SkipListUsable(skip_csv)
  /\ ttl_files # <<>>
  /\ onto_vecs' = onto_store.vecs
  /\ onto_ids' = onto_store.ids
  /\ onto_txts' = onto_store.txts
  /\ skip_set' = load_skip_set_required(skip_csv)
  /\ fi' = 1
  /\ pc' = "files"
  /\ UNCHANGED << inputs, skipped, kept, cur, network, tables, outputs >>

\* FileNotFoundError / ValueError of load_skip_set_required, RuntimeError of
\* the empty file list
LoadFails ==
  /\ pc = "start"
  /\ ~SkipListUsable(skip_csv) \/ ttl_files = <<>>
  /\ onto_vecs' = onto_store.vecs
  /\ onto_ids' = onto_store.ids
  /\ onto_txts' = onto_store.txts
  /\ skip_set' = IF SkipListUsable(skip_csv)
                 THEN load_skip_set_required(skip_csv) ELSE skip_set
  /\ pc' = "aborted"
  /\ UNCHANGED << inputs, fi, skipped, kept, cur, network, tables, outputs >>

(***************************************************************************)
(* The loop over the files: extraction and the skip-list partition.        *)
(***************************************************************************)
BeginFile ==
  /\ pc = "files"
  /\ fi <= Len(ttl_files)
  /\ LET extracted == extract_fmu_variable_names(ttl_files[fi])
     IN  /\ kept' = KeptOf(extracted)
         /\ skipped' = SkippedOf(extracted)
  /\ pc' = "loop"
  /\ UNCHANGED << inputs, loaded, fi, cur, network, tables, outputs >>

\* one iteration of "for name in skipped"
LogSkipped ==
  /\ pc = "loop"
  /\ skipped # <<>>
  /\ LET name == Head(skipped)
         row == Row(BaseFile, name, "", 0,
                    JStr("Skipped (Not found in standard / not defined in ontology)"),
                    "SKIPPED_NOT_IN_STANDARD")
     IN  Emit(row, "SKIP_LIST", 0, 0, <<>>, CurIdle)
  /\ skipped' = Tail(skipped)
  /\ UNCHANGED << inputs, loaded, pc, fi, kept, cur, network, outputs >>

\* one iteration of "for name in kept" taking the is_ood branch
KeptOOD ==
  /\ pc = "loop"
  /\ skipped = <<>>
  /\ kept # <<>>
  /\ is_ood(Head(kept))
  /\ LET name == Head(kept)
         row == Row(BaseFile, name, "", 0, JStr("OOD"), "NO_MATCH")
     IN  Emit(row, "OOD_GATE", 0, 0, <<>>, CurIdle)
  /\ kept' = Tail(kept)
  /\ UNCHANGED << inputs, loaded, pc, fi, skipped, cur, network, outputs >>

(***************************************************************************)
(* run_multifile, lines 291-302: similarities and top-K of a query vector  *)
(***************************************************************************)
\* the locals sims, idx, top_sim, second_sim, margin and top of one variable
Lookup(qvec) ==
  LET sims == cosine_similarity(qvec, onto_vecs)
      idx == TopIdx(sims)
      top_sim == IF Len(idx) > 0 THEN sims[idx[1]] ELSE 0
      second_sim == IF Len(idx) > 1 THEN sims[idx[2]] ELSE 0
  IN  [sims |-> sims, idx |-> idx, top_sim |-> top_sim,
       margin |-> top_sim - second_sim,
       top |-> [k \in 1..Len(idx) |->
                  [id |-> onto_ids[idx[k]], sim |-> sims[idx[k]],
                   text |-> onto_txts[idx[k]]]]]

\* the locals of the loop body once embed_text has returned c.qvec: lines
\* 291-302 run before any rule is tried
Computed(c) ==
  LET r == Lookup(c.qvec)
  IN  [c EXCEPT !.sim_calls = 1, !.sims = r.sims, !.idx = r.idx,
                !.top_sim = r.top_sim, !.margin = r.margin, !.top = r.top]

(***************************************************************************)
(* embed_text                                                              *)
(***************************************************************************)
MaxAttempts == MAX_RETRIES + ExtraAttempts

RECURSIVE Pow2(_)
Pow2(n) == IF n = 0 THEN 1 ELSE 2 * Pow2(n - 1)

Min(a, b) == IF a <= b THEN a ELSE b

\* time.sleep(min(60, BACKOFF * (2 ** attempt)))
ExpBackoff(a) == Min(BackoffCap, BACKOFF * Pow2(a))
\* the wait after another status without its cap of 30 seconds
LinearWait_NoCap(a) == BACKOFF * (a + 1)

\* time.sleep(min(30, BACKOFF * (attempt + 1)))
LinearWait(a) == Min(OtherStatusWaitCap, BACKOFF * (a + 1))

Cached(key) == \E e \in EMBED_CACHE : e.key = key
\* CacheGet handing out the zero vector for every key
CacheGet_Zeros(key) == Zeros

CacheGet(key) == (CHOOSE e \in EMBED_CACHE : e.key = key).vec
\* CachePut storing nothing
CachePut_Nothing(key, vec) == EMBED_CACHE

CachePut(key, vec) ==
  { e \in EMBED_CACHE : e.key # key } \cup { [key |-> key, vec |-> vec] }

\* throttle() sleeping after every second request only
throttle_EverySecond ==
  /\ api_calls' = api_calls + 1
  /\ throttle_sleeps' = IF api_calls' % 2 = 0
                        THEN throttle_sleeps + 1 ELSE throttle_sleeps

\* throttle(): _api_calls += 1, then a sleep of THROTTLE_SLEEP_SECONDS when
\* the count is a multiple of THROTTLE_EVERY_N_REQUESTS
throttle ==
  /\ api_calls' = api_calls + 1
  /\ throttle_sleeps' = IF api_calls' % THROTTLE_EVERY_N_REQUESTS = 0
                        THEN throttle_sleeps + 1 ELSE throttle_sleeps

\* the locals of embed_text after one more requests.post with this outcome
Requested(outcome) == [cur EXCEPT !.status = outcome]
\* EmbedCall without the is_ood gate in front of it
EmbedCall_NoGate ==
  /\ pc = "loop"
  /\ skipped = <<>>
  /\ kept # <<>>
  /\ LET name == Head(kept)
         query == QueryOf(name)
         key == Strip(query)
     IN  IF Cached(key)
         THEN /\ cur' = Computed([CurIdle EXCEPT !.name = name, !.query = query,
                                                 !.embed_calls = 1,
                                                 !.qvec = CacheGet(key)])
              /\ pc' = "route"
         ELSE /\ cur' = [CurIdle EXCEPT !.name = name, !.query = query,
                                        !.embed_calls = 1]
              /\ pc' = "embed"
  /\ kept' = Tail(kept)
  /\ attempt' = 0
  /\ slept' = 0
  /\ UNCHANGED << inputs, loaded, fi, skipped, api_calls, throttle_sleeps,
                  EMBED_CACHE, faults, tables, outputs >>

\* a kept, in-domain variable is taken up: the query is built and embed_text
\* is entered; a cached key returns at once
EmbedCall ==
  /\ pc = "loop"
  /\ skipped = <<>>
  /\ kept # <<>>
  /\ ~is_ood(Head(kept))
  /\ LET name == Head(kept)
         query == QueryOf(name)
         key == Strip(query)
     IN  IF Cached(key)
         THEN /\ cur' = Computed([CurIdle EXCEPT !.name = name, !.query = query,
                                                 !.embed_calls = 1,
                                                 !.qvec = CacheGet(key)])
              /\ pc' = "route"
         ELSE /\ cur' = [CurIdle EXCEPT !.name = name, !.query = query,
                                        !.embed_calls = 1]
              /\ pc' = "embed"
  /\ kept' = Tail(kept)
  /\ attempt' = 0
  /\ slept' = 0
  /\ UNCHANGED << inputs, loaded, fi, skipped, api_calls, throttle_sleeps,
                  EMBED_CACHE, faults, tables, outputs >>

\* status 200: the vector is cached and returned
EmbedOk ==
  /\ pc = "embed"
  /\ attempt < MaxAttempts
  /\ throttle
  /\ \E vec \in ServiceVecs :
       /\ EMBED_CACHE' = CachePut(Strip(cur.query), vec)
       /\ cur' = Computed([Requested("200") EXCEPT !.qvec = vec])
  /\ slept' = 0
  /\ pc' = "route"
  /\ UNCHANGED << inputs, loaded, fi, skipped, kept, attempt, faults, tables, outputs >>

\* status 403: RuntimeError, caught nowhere
EmbedForbidden ==
  /\ pc = "embed"
  /\ attempt < MaxAttempts
  /\ throttle
  /\ cur' = Requested("403")
  /\ pc' = "aborted"
  /\ UNCHANGED << inputs, loaded, fi, skipped, kept, attempt, EMBED_CACHE,
                  slept, faults, tables, outputs >>

\* status 429 or a RequestException: exponential back-off, next attempt
EmbedBackoff ==
  /\ pc = "embed"
  /\ attempt < MaxAttempts
  /\ faults > 0
  /\ throttle
  /\ \E outcome \in {"429", "exception"} : cur' = Requested(outcome)
  /\ slept' = ExpBackoff(attempt)
  /\ attempt' = attempt + 1
  /\ faults' = faults - 1
  /\ UNCHANGED << inputs, loaded, pc, fi, skipped, kept, EMBED_CACHE,
                  tables, outputs >>

\* any other status: shorter wait, next attempt
EmbedOtherStatus ==
  /\ pc = "embed"
  /\ attempt < MaxAttempts
  /\ faults > 0
  /\ throttle
  /\ cur' = Requested("other")
  /\ slept' = LinearWait(attempt)
  /\ attempt' = attempt + 1
  /\ faults' = faults - 1
  /\ UNCHANGED << inputs, loaded, pc, fi, skipped, kept, EMBED_CACHE,
                  tables, outputs >>

\* EmbedExhausted propagating an error instead of returning
EmbedExhausted_Raises ==
  /\ pc = "embed"
  /\ attempt = MaxAttempts
  /\ pc' = "aborted"
  /\ UNCHANGED << inputs, loaded, fi, skipped, kept, cur, attempt, api_calls,
                  throttle_sleeps, EMBED_CACHE, slept, faults, tables,
                  outputs >>

\* the loop ran out: np.zeros(dim), not cached
EmbedExhausted ==
  /\ pc = "embed"
  /\ attempt = MaxAttempts
  /\ cur' = Computed([cur EXCEPT !.qvec = Zeros])
  /\ slept' = 0
  /\ pc' = "route"
  /\ UNCHANGED << inputs, loaded, fi, skipped, kept, attempt, api_calls,
                  throttle_sleeps, EMBED_CACHE, faults, tables, outputs >>

(***************************************************************************)
(* run_multifile, lines 304-333: the two local rules                       *)
(***************************************************************************)
Sims == cur.sims
Idx == cur.idx
TopSim == cur.top_sim
Margin == cur.margin
Top == cur.top
\* the low-similarity test yielding to the margin rule
IsLowSim_AfterMargin ==
  TopSim < MIN_SIM /\ ~(Len(Idx) > 1 /\ Margin >= SIM_GAP)

IsLowSim == TopSim < MIN_SIM
\* the margin rule without its "more than one candidate" condition
IsAutoMargin_AnyCount == Len(Idx) > 0 /\ Margin >= SIM_GAP

IsAutoMargin == Len(Idx) > 1 /\ Margin >= SIM_GAP

\* the low-similarity row with confidence 0.0 instead of the top similarity
RouteLowSim_ZeroConf ==
  /\ pc = "route"
  /\ IsLowSim
  /\ LET final_conf == 0
         row == Row(BaseFile, cur.name, "", final_conf,
                    JFmt("Low similarity", TopSim, MIN_SIM),
                    route_by_conf(final_conf))
     IN  Emit(row, "LOW_SIM", TopSim, Margin, Compact(Top), cur)
  /\ cur' = CurIdle
  /\ pc' = "loop"
  /\ UNCHANGED << inputs, loaded, fi, skipped, kept, network, outputs >>

\* the low-similarity row naming the top candidate as its match
RouteLowSim_KeepsBest ==
  /\ pc = "route"
  /\ IsLowSim
  /\ LET final_conf == TopSim
         row == Row(BaseFile, cur.name,
                    IF Len(Idx) > 0 THEN onto_ids[Idx[1]] ELSE "", final_conf,
                    JFmt("Low similarity", TopSim, MIN_SIM),
                    route_by_conf(final_conf))
     IN  Emit(row, "LOW_SIM", TopSim, Margin, Compact(Top), cur)
  /\ cur' = CurIdle
  /\ pc' = "loop"
  /\ UNCHANGED << inputs, loaded, fi, skipped, kept, network, outputs >>

RouteLowSim ==
  /\ pc = "route"
  /\ IsLowSim
  /\ LET final_conf == TopSim
         row == Row(BaseFile, cur.name, "", final_conf,
                    JFmt("Low similarity", TopSim, MIN_SIM),
                    route_by_conf(final_conf))
     IN  Emit(row, "LOW_SIM", TopSim, Margin, Compact(Top), cur)
  /\ cur' = CurIdle
  /\ pc' = "loop"
  /\ UNCHANGED << inputs, loaded, fi, skipped, kept, network, outputs >>
\* the margin row without the 0.99 cap on its confidence
RouteAutoMargin_NoCap ==
  /\ pc = "route"
  /\ ~IsLowSim
  /\ IsAutoMargin
  /\ LET best == onto_ids[Idx[1]]
         final_conf == TopSim
         row == Row(BaseFile, cur.name, best, final_conf,
                    JFmt("Auto by margin", TopSim, Margin),
                    route_by_conf(final_conf))
     IN  Emit(row, "AUTO_MARGIN", TopSim, Margin, Compact(Top), cur)
  /\ cur' = CurIdle
  /\ pc' = "loop"
  /\ UNCHANGED << inputs, loaded, fi, skipped, kept, network, outputs >>

RouteAutoMargin ==
  /\ pc = "route"
  /\ ~IsLowSim
  /\ IsAutoMargin
  /\ LET best == onto_ids[Idx[1]]
         final_conf == Min(AutoConfCap, TopSim)
         row == Row(BaseFile, cur.name, best, final_conf,
                    JFmt("Auto by margin", TopSim, Margin),
                    route_by_conf(final_conf))
     IN  Emit(row, "AUTO_MARGIN", TopSim, Margin, Compact(Top), cur)
  /\ cur' = CurIdle
  /\ pc' = "loop"
  /\ UNCHANGED << inputs, loaded, fi, skipped, kept, network, outputs >>

\* neither rule applies: reason_llm(query, top) is entered
LlmCall ==
  /\ pc = "route"
  /\ ~IsLowSim
  /\ ~IsAutoMargin
  /\ cur' = [cur EXCEPT !.llm_calls = 1, !.llm_args = Top, !.status = "none"]
  /\ attempt' = 0
  /\ slept' = 0
  /\ pc' = "llm"
  /\ UNCHANGED << inputs, loaded, fi, skipped, kept, api_calls,
                  throttle_sleeps, EMBED_CACHE, faults, tables, outputs >>

(***************************************************************************)
(* reason_llm                                                              *)
(***************************************************************************)
Fallback(text) == Verdict(JStr(""), JNum(0), JStr(text))

\* the locals of reason_llm after one more requests.post with this outcome
Answered(outcome, content) ==
  [cur EXCEPT !.status = outcome, !.content = content]

\* str.find / str.rfind: 0-based position of a piece, -1 when absent
Find(s, ch) ==
  LET hits == { i \in 1..Len(s) : s[i] = ch }
  IN  IF hits = {} THEN -1 ELSE (CHOOSE i \in hits : \A j \in hits : i <= j) - 1

RFind(s, ch) ==
  LET hits == { i \in 1..Len(s) : s[i] = ch }
  IN  IF hits = {} THEN -1 ELSE (CHOOSE i \in hits : \A j \in hits : j <= i) - 1

\* a slice bound of Python: negative counts from the end, then clamped
SliceBound(s, b) ==
  LET x == IF b < 0 THEN b + Len(s) ELSE b
  IN  IF x < 0 THEN 0 ELSE IF x > Len(s) THEN Len(s) ELSE x

\* s[start:end]
PySlice(s, start, end) ==
  LET lo == SliceBound(s, start)
      hi == SliceBound(s, end)
  IN  IF lo >= hi THEN <<>> ELSE SubSeq(s, lo + 1, hi)

\* ObjectText ending at the first "}" instead of the last
ObjectText_FirstObject(content) ==
  PySlice(content, Find(content, "{"), Find(content, "}") + 1)

\* content[start:end] with start, end = content.find("{"), content.rfind("}") + 1
ObjectText(content) ==
  PySlice(content, Find(content, "{"), RFind(content, "}") + 1)

\* json.loads accepts exactly the text of one object
JsonLoadsOk(text) == text \in { <<"{", "}">>, <<"{", "v", "}">> }

\* json.loads(text) for an accepted text whose members are v
json_loads(text, v) == IF text = <<"{", "}">> THEN NoVerdict ELSE v

Return(v, c) ==
  /\ cur' = [c EXCEPT !.llm = v]
  /\ slept' = 0
  /\ pc' = "verdict"

\* status 200 and the text between the braces parses
LlmOk ==
  /\ pc = "llm"
  /\ attempt < MaxAttempts
  /\ throttle
  /\ \E content \in LlmContents : \E v \in ServiceVerdicts :
       /\ JsonLoadsOk(ObjectText(content))
       /\ Return(json_loads(ObjectText(content), v), Answered("200", content))
  /\ UNCHANGED << inputs, loaded, fi, skipped, kept, attempt, EMBED_CACHE,
                  faults, tables, outputs >>

\* status 200 and json.loads raises
LlmParseError ==
  /\ pc = "llm"
  /\ attempt < MaxAttempts
  /\ throttle
  /\ \E content \in LlmContents :
       /\ ~JsonLoadsOk(ObjectText(content))
       /\ Return(Fallback("LLM parse error"), Answered("200", content))
  /\ UNCHANGED << inputs, loaded, fi, skipped, kept, attempt, EMBED_CACHE,
                  faults, tables, outputs >>

\* LlmForbidden degrading to an empty verdict instead of raising
LlmForbidden_EmptyVerdict ==
  /\ pc = "llm"
  /\ attempt < MaxAttempts
  /\ throttle
  /\ Return(Fallback("LLM API status"), Answered("403", <<>>))
  /\ UNCHANGED << inputs, loaded, fi, skipped, kept, attempt, EMBED_CACHE,
                  faults, tables, outputs >>

\* status 403: RuntimeError, caught nowhere
LlmForbidden ==
  /\ pc = "llm"
  /\ attempt < MaxAttempts
  /\ throttle
  /\ cur' = Answered("403", <<>>)
  /\ pc' = "aborted"
  /\ UNCHANGED << inputs, loaded, fi, skipped, kept, attempt, EMBED_CACHE,
                  slept, faults, tables, outputs >>

\* status 429 or a RequestException: exponential back-off, next attempt
\* LlmBackoff retrying for as long as the service fails
LlmBackoff_NoCap ==
  /\ pc = "llm"
  /\ faults > 0
  /\ throttle
  /\ \E outcome \in {"429", "exception"} : cur' = Answered(outcome, <<>>)
  /\ slept' = ExpBackoff(attempt)
  /\ attempt' = attempt + 1
  /\ faults' = faults - 1
  /\ UNCHANGED << inputs, loaded, pc, fi, skipped, kept, EMBED_CACHE,
                  tables, outputs >>

LlmBackoff ==
  /\ pc = "llm"
  /\ attempt < MaxAttempts
  /\ faults > 0
  /\ throttle
  /\ \E outcome \in {"429", "exception"} : cur' = Answered(outcome, <<>>)
  /\ slept' = ExpBackoff(attempt)
  /\ attempt' = attempt + 1
  /\ faults' = faults - 1
  /\ UNCHANGED << inputs, loaded, pc, fi, skipped, kept, EMBED_CACHE,
                  tables, outputs >>

\* LlmOtherStatus going back to embed the query again
LlmOtherStatus_ReEmbeds ==
  /\ pc = "llm"
  /\ attempt < MaxAttempts
  /\ throttle
  /\ cur' = Answered("other", <<>>)
  /\ attempt' = 0
  /\ slept' = 0
  /\ pc' = "embed"
  /\ UNCHANGED << inputs, loaded, fi, skipped, kept, EMBED_CACHE,
                  faults, tables, outputs >>

\* any other status: returned at once as an empty verdict
LlmOtherStatus ==
  /\ pc = "llm"
  /\ attempt < MaxAttempts
  /\ throttle
  /\ Return(Fallback("LLM API status"), Answered("other", <<>>))
  /\ UNCHANGED << inputs, loaded, fi, skipped, kept, attempt, EMBED_CACHE,
                  faults, tables, outputs >>

\* LlmExhausted raising instead of returning
LlmExhausted_Raises ==
  /\ pc = "llm"
  /\ attempt = MaxAttempts
  /\ pc' = "aborted"
  /\ UNCHANGED << inputs, loaded, fi, skipped, kept, cur, attempt, api_calls,
                  throttle_sleeps, EMBED_CACHE, slept, faults, tables,
                  outputs >>

\* the loop ran out
LlmExhausted ==
  /\ pc = "llm"
  /\ attempt = MaxAttempts
  /\ Return(Fallback("LLM request failed (timeout/retries exhausted)"), cur)
  /\ UNCHANGED << inputs, loaded, fi, skipped, kept, attempt, api_calls,
                  throttle_sleeps, EMBED_CACHE, faults, tables, outputs >>

(***************************************************************************)
(* run_multifile, lines 336-349: the row of an LLM verdict                 *)
(***************************************************************************)
\* strings float() parses, with their value in hundredths
NumericStrings == { "0.9" }
FloatOfString(x) == IF x = "0.9" THEN 90 ELSE 0

\* llm.get("best_match", "") or ""
BestOf(v) == IF v.best_match.t = "str" THEN v.best_match.s ELSE ""

\* float(llm.get("confidence", 0.0) or 0.0) raises ValueError
ConfRaises(v) ==
  /\ v.confidence.t = "str"
  /\ v.confidence.s # ""
  /\ v.confidence.s \notin NumericStrings

\* float(llm.get("confidence", 0.0) or 0.0)
ConfOf(v) ==
  IF v.confidence.t = "num" THEN v.confidence.n
  ELSE IF v.confidence.t = "str" /\ v.confidence.s # ""
       THEN FloatOfString(v.confidence.s)
  ELSE 0

\* the reason member without its default
ReasonOf_Raw(v) == v.reason

\* llm.get("reason", "")
ReasonOf(v) == IF v.reason.t = "missing" THEN JStr("") ELSE v.reason
\* the LLM row with its status taken from the top similarity
LlmRow_StatusBySim ==
  /\ pc = "verdict"
  /\ ~ConfRaises(cur.llm)
  /\ LET llm_best == BestOf(cur.llm)
         llm_conf == ConfOf(cur.llm)
         row == Row(BaseFile, cur.name, llm_best, llm_conf, ReasonOf(cur.llm),
                    route_by_conf(cur.top_sim))
     IN  Emit(row, "LLM", cur.top_sim, cur.margin, Compact(cur.top), cur)
  /\ cur' = CurIdle
  /\ pc' = "loop"
  /\ UNCHANGED << inputs, loaded, fi, skipped, kept, network, outputs >>

LlmRow ==
  /\ pc = "verdict"
  /\ ~ConfRaises(cur.llm)
  /\ LET llm_best == BestOf(cur.llm)
         llm_conf == ConfOf(cur.llm)
         row == Row(BaseFile, cur.name, llm_best, llm_conf, ReasonOf(cur.llm),
                    route_by_conf(llm_conf))
     IN  Emit(row, "LLM", cur.top_sim, cur.margin, Compact(cur.top), cur)
  /\ cur' = CurIdle
  /\ pc' = "loop"
  /\ UNCHANGED << inputs, loaded, fi, skipped, kept, network, outputs >>

\* float() of a non-numeric confidence: ValueError, caught nowhere
LlmRowRaises ==
  /\ pc = "verdict"
  /\ ConfRaises(cur.llm)
  /\ pc' = "aborted"
  /\ UNCHANGED << inputs, loaded, fi, skipped, kept, cur, network, tables, outputs >>

\* both inner loops are done: next file
EndFile ==
  /\ pc = "loop"
  /\ skipped = <<>>
  /\ kept = <<>>
  /\ fi' = fi + 1
  /\ pc' = "files"
  /\ UNCHANGED << inputs, loaded, skipped, kept, cur, network, tables, outputs >>

\* csv.DictWriter writes a None cell as the empty string
CsvCell(x) == IF x.t = "null" THEN JStr("") ELSE x
CsvRows(rows) == [i \in 1..Len(rows) |-> [rows[i] EXCEPT !.reason = CsvCell(@)]]

\* WriteOutputs as soon as the first file is done
WriteOutputs_Early ==
  /\ pc = "files"
  /\ fi > 1
  /\ out_csv' = [written |-> TRUE, rows |-> CsvRows(all_results)]
  /\ audit_csv' = [written |-> TRUE, rows |-> CsvRows(all_audit)]
  /\ pc' = "done"
  /\ UNCHANGED << inputs, loaded, fi, skipped, kept, cur, network, tables >>

\* lines 352-363: both tables are written after the last file
WriteOutputs ==
  /\ pc = "files"
  /\ fi > Len(ttl_files)
  /\ out_csv' = [written |-> TRUE, rows |-> CsvRows(all_results)]
  /\ audit_csv' = [written |-> TRUE, rows |-> CsvRows(all_audit)]
  /\ pc' = "done"
  /\ UNCHANGED << inputs, loaded, fi, skipped, kept, cur, network, tables >>

Next ==
  \/ LoadInputs \/ LoadFails
  \/ BeginFile \/ LogSkipped \/ KeptOOD
  \/ EmbedCall \/ EmbedOk \/ EmbedForbidden \/ EmbedBackoff \/ EmbedOtherStatus
  \/ EmbedExhausted
  \/ RouteLowSim \/ RouteAutoMargin \/ LlmCall
  \/ LlmOk \/ LlmParseError \/ LlmForbidden \/ LlmBackoff \/ LlmOtherStatus
  \/ LlmExhausted
  \/ LlmRow \/ LlmRowRaises
  \/ EndFile \/ WriteOutputs

Spec == Init /\ [][Next]_vars

(***************************************************************************)
(* The retry loops of embed_text and reason_llm side by side: both are     *)
(* fed the same sequence of failing outcomes, one outcome per request.     *)
(* A loop records the requests it has made, the back-off sleeps it has     *)
(* taken and whether it has returned.                                      *)
(***************************************************************************)
FailingOutcomes == {"429", "exception", "other"}

\* embed_text, lines 107-133: one more request answered by a failure
EmbedRetry(st, outcome) ==
  IF st.returned THEN st
  ELSE [attempt |-> st.attempt + 1,
        sleeps |-> Append(st.sleeps,
                          IF outcome = "other" THEN LinearWait(st.attempt)
                          ELSE ExpBackoff(st.attempt)),
        returned |-> st.attempt + 1 = MaxAttempts]

\* LlmRetry backing off without the cap of 60 seconds
LlmRetry_NoCap(st, outcome) ==
  IF st.returned THEN st
  ELSE IF outcome = "other"
       THEN [st EXCEPT !.attempt = @ + 1, !.returned = TRUE]
  ELSE [attempt |-> st.attempt + 1,
        sleeps |-> Append(st.sleeps, BACKOFF * Pow2(st.attempt)),
        returned |-> st.attempt + 1 = MaxAttempts]

\* reason_llm, lines 155-192: one more request answered by a failure; a
\* status other than 429 is returned at once as a verdict
LlmRetry(st, outcome) ==
  IF st.returned THEN st
  ELSE IF outcome = "other"
       THEN [st EXCEPT !.attempt = @ + 1, !.returned = TRUE]
  ELSE [attempt |-> st.attempt + 1,
        sleeps |-> Append(st.sleeps, ExpBackoff(st.attempt)),
        returned |-> st.attempt + 1 = MaxAttempts]

\* both loops after one more request with this outcome
Fed(outcome) ==
  [outcomes |-> Append(probe.outcomes, outcome),
   embed |-> EmbedRetry(probe.embed, outcome),
   llm |-> LlmRetry(probe.llm, outcome)]

\* the state of run_multifile, which the side-by-side loops leave alone
run ==
  << HUMAN_REVIEW_THR, ttl_files, onto_store, skip_csv, loaded, pc, fi,
     skipped, kept, cur, network, tables, outputs, first_run, sweep >>

\* the next request of both loops is answered 429
FeedRateLimited ==
  /\ Len(probe.outcomes) < MaxAttempts
  /\ probe' = Fed("429")
  /\ UNCHANGED run

\* the next request of both loops ends in a RequestException
FeedException ==
  /\ Len(probe.outcomes) < MaxAttempts
  /\ probe' = Fed("exception")
  /\ UNCHANGED run

\* the next request of both loops is answered by another status
FeedOtherStatus ==
  /\ Len(probe.outcomes) < MaxAttempts
  /\ probe' = Fed("other")
  /\ UNCHANGED run

RetryInit ==
  /\ HUMAN_REVIEW_THR = DefaultHumanReviewThr
  /\ ttl_files = <<>>
  /\ onto_store = [vecs |-> <<>>, ids |-> <<>>, txts |-> <<>>]
  /\ skip_csv \in { c \in SkipCsvFiles : SkipListUsable(c) }
  /\ onto_vecs = <<>> /\ onto_ids = <<>> /\ onto_txts = <<>>
  /\ skip_set = {}
  /\ pc = "start"
  /\ fi = 0
  /\ skipped = <<>> /\ kept = <<>>
  /\ cur = CurIdle
  /\ attempt = 0
  /\ api_calls = 0
  /\ throttle_sleeps = 0
  /\ EMBED_CACHE = {}
  /\ slept = 0
  /\ faults = 0
  /\ all_results = <<>> /\ all_audit = <<>> /\ call_log = <<>>
  /\ out_csv = NotWritten /\ audit_csv = NotWritten
  /\ probe = ProbeIdle
  /\ first_run = NoFirstRun
  /\ sweep = SweepIdle

RetryNext == FeedRateLimited \/ FeedException \/ FeedOtherStatus

RetrySpec == RetryInit /\ [][RetryNext]_vars

(***************************************************************************)
(* run_multifile run twice over the same files, skip list and index,       *)
(* against services that answer a request the same way every time: a       *)
(* request either succeeds at its first attempt, always with the same      *)
(* answer, or is rate-limited at every attempt.  The second run is made by *)
(* the same process (module globals kept) or by a new one.                 *)
(***************************************************************************)
\* the client calls made for a name so far, in the earlier run and in this
CallsFor(name) ==
  { first_run.log[i] : i \in { j \in DOMAIN first_run.log :
                                 first_run.names[j] = name } }
  \cup { call_log[i] : i \in { j \in DOMAIN call_log :
                                 all_results[j].original_name = name } }

\* what the services have answered for the query of a name
KnownVecs(name) ==
  { c.qvec : c \in { d \in CallsFor(name) : d.embed_calls = 1 } }
KnownVerdicts(name) ==
  { c.verdict : c \in { d \in CallsFor(name) : d.llm_calls = 1 } }

GaveUp == Fallback("LLM request failed (timeout/retries exhausted)")

\* retryable failures a pair of runs can meet
RerunFaults == 4 * MaxVars * MaxAttempts

RerunInit ==
  /\ HUMAN_REVIEW_THR = DefaultHumanReviewThr
  /\ ttl_files \in TtlFileSets
  /\ onto_store \in OntoStores
  /\ skip_csv \in { c \in SkipCsvFiles : SkipListUsable(c) }
  /\ onto_vecs = <<>> /\ onto_ids = <<>> /\ onto_txts = <<>>
  /\ skip_set = {}
  /\ pc = "start"
  /\ fi = 0
  /\ skipped = <<>> /\ kept = <<>>
  /\ cur = CurIdle
  /\ attempt = 0
  /\ api_calls = 0
  /\ throttle_sleeps = 0
  /\ EMBED_CACHE = {}
  /\ slept = 0
  /\ faults = RerunFaults
  /\ all_results = <<>> /\ all_audit = <<>> /\ call_log = <<>>
  /\ out_csv = NotWritten /\ audit_csv = NotWritten
  /\ probe = ProbeIdle
  /\ first_run = NoFirstRun
  /\ sweep = SweepIdle

\* the embedding service answers 200 at the first attempt, with the vector
\* it has given for this query before
SameEmbedOk ==
  /\ attempt = 0
  /\ EmbedOk
  /\ \A v \in KnownVecs(cur.name) : cur'.qvec = v

\* the embedding service rate-limits a query it has never answered
SameEmbedBackoff ==
  /\ \A v \in KnownVecs(cur.name) : v = Zeros
  /\ EmbedBackoff
  /\ cur'.status = "429"

\* the chat service answers at the first attempt as it has answered this
\* request before
SameLlmOk ==
  /\ attempt = 0
  /\ LlmOk
  /\ ~ConfRaises(cur'.llm)
  /\ \A v \in KnownVerdicts(cur.name) : cur'.llm = v

SameLlmParseError ==
  /\ attempt = 0
  /\ LlmParseError
  /\ \A v \in KnownVerdicts(cur.name) : cur'.llm = v

SameLlmOtherStatus ==
  /\ attempt = 0
  /\ LlmOtherStatus
  /\ \A v \in KnownVerdicts(cur.name) : cur'.llm = v

\* the chat service rate-limits a request it has never answered
SameLlmBackoff ==
  /\ \A v \in KnownVerdicts(cur.name) : v = GaveUp
  /\ LlmBackoff
  /\ cur'.status = "429"

\* the tables and calls of the run that has just ended
Ended(warm) ==
  [done |-> TRUE, warm |-> warm, out |-> out_csv.rows,
   names |-> [i \in DOMAIN all_results |-> all_results[i].original_name],
   log |-> call_log]

\* run_multifile is called again by the same process: _EMBED_CACHE and
\* _api_calls are kept, the written tables stay on disk
RunAgain ==
  /\ pc = "done"
  /\ ~first_run.done
  /\ first_run' = Ended(TRUE)
  /\ pc' = "start"
  /\ fi' = 0
  /\ cur' = CurIdle
  /\ attempt' = 0
  /\ slept' = 0
  /\ onto_vecs' = <<>> /\ onto_ids' = <<>> /\ onto_txts' = <<>>
  /\ skip_set' = {}
  /\ all_results' = <<>> /\ all_audit' = <<>> /\ call_log' = <<>>
  /\ UNCHANGED << HUMAN_REVIEW_THR, ttl_files, onto_store, skip_csv, probe,
                  sweep, skipped, kept, api_calls, throttle_sleeps,
                  EMBED_CACHE, faults, outputs >>

\* the script is started again: a new process with an empty cache
StartAgain ==
  /\ pc = "done"
  /\ ~first_run.done
  /\ first_run' = Ended(FALSE)
  /\ pc' = "start"
  /\ fi' = 0
  /\ cur' = CurIdle
  /\ attempt' = 0
  /\ slept' = 0
  /\ api_calls' = 0
  /\ throttle_sleeps' = 0
  /\ EMBED_CACHE' = {}
  /\ onto_vecs' = <<>> /\ onto_ids' = <<>> /\ onto_txts' = <<>>
  /\ skip_set' = {}
  /\ all_results' = <<>> /\ all_audit' = <<>> /\ call_log' = <<>>
  /\ UNCHANGED << HUMAN_REVIEW_THR, ttl_files, onto_store, skip_csv, probe,
                  sweep, skipped, kept, faults, outputs >>

RerunNext ==
  \/ LoadInputs \/ BeginFile \/ LogSkipped \/ KeptOOD
  \/ EmbedCall \/ SameEmbedOk \/ SameEmbedBackoff \/ EmbedExhausted
  \/ RouteLowSim \/ RouteAutoMargin \/ LlmCall
  \/ SameLlmOk \/ SameLlmParseError \/ SameLlmOtherStatus \/ SameLlmBackoff
  \/ LlmExhausted
  \/ LlmRow \/ EndFile \/ WriteOutputs
  \/ RunAgain \/ StartAgain

RerunSpec == RerunInit /\ [][RerunNext]_vars

(***************************************************************************)
(* The sweep driver given any threshold of two decimals: it patches a copy *)
(* of the script and runs the copy.  patch_masteragent compares the value  *)
(* it writes with nothing.                                                 *)
(***************************************************************************)
ThresholdInputs == 0..ThrSpan

SweepInit ==
  /\ HUMAN_REVIEW_THR = DefaultHumanReviewThr
  /\ ttl_files = <<>>
  /\ onto_store = [vecs |-> <<>>, ids |-> <<>>, txts |-> <<>>]
  /\ skip_csv \in { c \in SkipCsvFiles : SkipListUsable(c) }
  /\ onto_vecs = <<>> /\ onto_ids = <<>> /\ onto_txts = <<>>
  /\ skip_set = {}
  /\ pc = "start"
  /\ fi = 0
  /\ skipped = <<>> /\ kept = <<>>
  /\ cur = CurIdle
  /\ attempt = 0
  /\ api_calls = 0
  /\ throttle_sleeps = 0
  /\ EMBED_CACHE = {}
  /\ slept = 0
  /\ faults = 0
  /\ all_results = <<>> /\ all_audit = <<>> /\ call_log = <<>>
  /\ out_csv = NotWritten /\ audit_csv = NotWritten
  /\ probe = ProbeIdle
  /\ first_run = NoFirstRun
  /\ sweep \in { [SweepIdle EXCEPT !.hr_thr = t] : t \in ThresholdInputs }

\* patched = patch_masteragent(src_text, thr); the copy is written to disk
PatchCopy ==
  /\ ~sweep.patched
  /\ sweep' = [sweep EXCEPT !.script = patch_masteragent(Script, sweep.hr_thr),
                            !.patched = TRUE]
  /\ UNCHANGED << HUMAN_REVIEW_THR, ttl_files, onto_store, skip_csv, loaded,
                  pc, fi, skipped, kept, cur, network, tables, outputs, probe,
                  first_run >>

\* the copy is started as a subprocess: its module constants are the
\* thresholds of the run
RunCopy ==
  /\ sweep.patched /\ ~sweep.ran
  /\ HUMAN_REVIEW_THR' = sweep.script.HUMAN_REVIEW_THR
  /\ sweep' = [sweep EXCEPT !.ran = TRUE]
  /\ UNCHANGED << ttl_files, onto_store, skip_csv, loaded, pc, fi, skipped,
                  kept, cur, network, tables, outputs, probe, first_run >>

SweepNext == PatchCopy \/ RunCopy

SweepSpec == SweepInit /\ [][SweepNext]_vars

(***************************************************************************)
(* A run in which the services may fail any request: the budget of         *)
(* failures is larger than the number of requests a run can make, so the   *)
(* services can answer every stream of outcomes.  The process is never     *)
(* suspended for good.  The steps run_multifile takes by itself are        *)
(* weakly fair.  Inside a client every request carries a timeout and every *)
(* sleep is finite, so a call in progress takes its next step, whichever   *)
(* outcome the service chooses: this is weak fairness of Next in the       *)
(* states inside a client, written by its definition with the state        *)
(* predicate pc \in {"embed", "llm"} for ENABLED <<Next>>_vars, since some  *)
(* step of Next is possible in every state inside a client.                *)
(***************************************************************************)
AnyStreamInit ==
  /\ HUMAN_REVIEW_THR = DefaultHumanReviewThr
  /\ ttl_files \in { f \in TtlFileSets : Len(f) <= 1 }
  /\ onto_store \in OntoStores
  /\ skip_csv \in SkipCsvFiles
  /\ onto_vecs = <<>> /\ onto_ids = <<>> /\ onto_txts = <<>>
  /\ skip_set = {}
  /\ pc = "start"
  /\ fi = 0
  /\ skipped = <<>> /\ kept = <<>>
  /\ cur = CurIdle
  /\ attempt = 0
  /\ api_calls = 0
  /\ throttle_sleeps = 0
  /\ EMBED_CACHE = {}
  /\ slept = 0
  /\ faults = RerunFaults
  /\ all_results = <<>> /\ all_audit = <<>> /\ call_log = <<>>
  /\ out_csv = NotWritten /\ audit_csv = NotWritten
  /\ probe = ProbeIdle
  /\ first_run = NoFirstRun
  /\ sweep = SweepIdle

Running == pc \notin {"done", "aborted"}

\* the steps of run_multifile outside embed_text and reason_llm
Local ==
  \/ LoadInputs \/ LoadFails
  \/ BeginFile \/ LogSkipped \/ KeptOOD
  \/ EmbedCall
  \/ RouteLowSim \/ RouteAutoMargin \/ LlmCall
  \/ LlmRow \/ LlmRowRaises
  \/ EndFile \/ WriteOutputs

Fair ==
  /\ WF_vars(Local)
  /\ []<>(pc \notin {"embed", "llm"}) \/ []<><<Next>>_vars

AnyStreamSpec == AnyStreamInit /\ [][Next]_vars /\ Fair

(***************************************************************************)
(* Properties.                                                             *)
(***************************************************************************)
ProbeSpan == 120
ConfRange == (0 - ProbeSpan)..ProbeSpan

Rows == 1..Len(all_results)
\* norm and is_ood tabulated over the names a file of the model can carry
NormTable == { <<n, norm(n)>> : n \in VarNames }
OODTable == { <<n, is_ood(n)>> : n \in VarNames }
NormOf(name) == (CHOOSE e \in NormTable : e[1] = name)[2]
IsOOD(name) == <<name, TRUE>> \in OODTable
InCall == pc \in {"embed", "route", "llm", "verdict"}
Rank(status) ==
  IF status = "NO_MATCH" THEN 0 ELSE IF status = "HUMAN_REVIEW" THEN 1 ELSE 2
Routed(i) == all_audit[i].method \in {"LOW_SIM", "AUTO_MARGIN", "LLM"}
\* the largest entry of the similarity vector computed for row i against the
\* loaded index (0.0 for an empty index)
MaxSim(i) ==
  LET sims == call_log[i].sims
  IN  IF sims = <<>> THEN 0
      ELSE CHOOSE x \in { sims[k] : k \in DOMAIN sims } :
             \A k \in DOMAIN sims : sims[k] <= x

\* C1: with NO_MATCH_THR < HUMAN_REVIEW_THR, route_by_conf(c) is NO_MATCH for
\* c <= NO_MATCH_THR, HUMAN_REVIEW for NO_MATCH_THR < c <= HUMAN_REVIEW_THR and
\* ACCEPT above; it never decreases as c grows; both thresholds themselves
\* fall in the lower bucket; and every routed row carries the bucket of its
\* confidence.  route_by_conf reads the state only through HUMAN_REVIEW_THR,
\* so every c of ConfRange is probed once per threshold, in the runs that
\* start with no file.
C1_RoutePartition ==
  NO_MATCH_THR < HUMAN_REVIEW_THR =>
    /\ (pc = "start" /\ ttl_files = <<>>) => \A c \in ConfRange :
         /\ (c <= NO_MATCH_THR => route_by_conf(c) = "NO_MATCH")
         /\ (NO_MATCH_THR < c /\ c <= HUMAN_REVIEW_THR
               => route_by_conf(c) = "HUMAN_REVIEW")
         /\ (c > HUMAN_REVIEW_THR => route_by_conf(c) = "ACCEPT")
         /\ Rank(route_by_conf(c)) <= Rank(route_by_conf(c + 1))
    /\ route_by_conf(NO_MATCH_THR) = "NO_MATCH"
    /\ route_by_conf(HUMAN_REVIEW_THR) = "HUMAN_REVIEW"
    /\ \A i \in Rows :
         Routed(i) =>
           LET c == all_results[i].confidence
               st == all_results[i].status
           IN  /\ (c <= NO_MATCH_THR => st = "NO_MATCH")
               /\ (NO_MATCH_THR < c /\ c <= HUMAN_REVIEW_THR => st = "HUMAN_REVIEW")
               /\ (c > HUMAN_REVIEW_THR => st = "ACCEPT")

\* a row whose confidence is exactly HUMAN_REVIEW_THR, routed to HUMAN_REVIEW
C1_Witness ==
  \E i \in Rows :
    /\ Routed(i)
    /\ all_results[i].confidence = HUMAN_REVIEW_THR
    /\ all_results[i].status = "HUMAN_REVIEW"

\* C2: a variable whose normalised name is in the skip set gets a row with
\* status SKIPPED_NOT_IN_STANDARD, confidence 0.0, best_match "" and audit
\* method SKIP_LIST; neither client is called for it, and the step that
\* emits its row leaves _api_calls and the embedding cache as they were.
C2_SkipRows ==
  /\ \A i \in Rows :
       NormOf(all_results[i].original_name) \in skip_set =>
         /\ all_results[i].status = "SKIPPED_NOT_IN_STANDARD"
         /\ all_results[i].confidence = 0
         /\ all_results[i].best_match = ""
         /\ all_audit[i].method = "SKIP_LIST"
         /\ call_log[i].embed_calls = 0
         /\ call_log[i].llm_calls = 0
  /\ (InCall => NormOf(cur.name) \notin skip_set)

C2_RowStepOfSkipped ==
  /\ Len(all_results') = Len(all_results) + 1
  /\ NormOf(all_results'[Len(all_results')].original_name) \in skip_set

C2_SkipNoNetwork ==
  /\ []C2_SkipRows
  /\ [][C2_RowStepOfSkipped =>
          /\ api_calls' = api_calls
          /\ EMBED_CACHE' = EMBED_CACHE
          /\ ~InCall]_vars

\* the row of a skip-listed name that differs from its normalised form,
\* emitted after an earlier variable of the run made requests
C2_Witness ==
  \E i \in Rows :
    /\ all_audit[i].method = "SKIP_LIST"
    /\ NormOf(all_results[i].original_name) # all_results[i].original_name
    /\ api_calls > 0

\* C3: a variable that is not skip-listed and is out of domain gets a row
\* with status NO_MATCH, confidence 0.0, best_match "", reason "OOD" and audit
\* method OOD_GATE, and embed_text, the similarity computation and reason_llm
\* are never entered for it.
C3_OODGate ==
  /\ \A i \in Rows :
       (/\ NormOf(all_results[i].original_name) \notin skip_set
        /\ IsOOD(all_results[i].original_name)) =>
         /\ all_results[i].status = "NO_MATCH"
         /\ all_results[i].confidence = 0
         /\ all_results[i].best_match = ""
         /\ all_results[i].reason = JStr("OOD")
         /\ all_audit[i].method = "OOD_GATE"
         /\ call_log[i].embed_calls = 0
         /\ call_log[i].sim_calls = 0
         /\ call_log[i].llm_calls = 0
  /\ (InCall => ~IsOOD(cur.name))

\* an OOD_GATE row in a run whose index is not empty
C3_Witness ==
  \E i \in Rows :
    /\ all_audit[i].method = "OOD_GATE"
    /\ all_results[i].status = "NO_MATCH"
    /\ onto_vecs # <<>>

ReachedLookup(i) == call_log[i].sim_calls = 1
LowSimRow(i) == ReachedLookup(i) /\ all_audit[i].top_sim < MIN_SIM

\* C4 as stated: under the configured constants every variable whose top
\* similarity is below MIN_SIM gets best_match "", confidence = top
\* similarity, method LOW_SIM, no reason_llm call, and status NO_MATCH.
C4_LowSimIsNoMatch ==
  HUMAN_REVIEW_THR = DefaultHumanReviewThr =>
    \A i \in Rows :
      LowSimRow(i) =>
        /\ all_results[i].best_match = ""
        /\ all_results[i].confidence = all_audit[i].top_sim
        /\ all_audit[i].method = "LOW_SIM"
        /\ call_log[i].llm_calls = 0
        /\ all_results[i].status = "NO_MATCH"

\* C4 amended: as C4, but the status is NO_MATCH when the top similarity is
\* at most NO_MATCH_THR and HUMAN_REVIEW when it lies above NO_MATCH_THR
\* (and below MIN_SIM = HUMAN_REVIEW_THR); it is never ACCEPT.
C4_LowSimRouted ==
  HUMAN_REVIEW_THR = DefaultHumanReviewThr =>
    \A i \in Rows :
      LowSimRow(i) =>
        /\ all_results[i].best_match = ""
        /\ all_audit[i].top_sim = MaxSim(i)
        /\ all_results[i].confidence = all_audit[i].top_sim
        /\ all_audit[i].method = "LOW_SIM"
        /\ call_log[i].llm_calls = 0
        /\ all_results[i].status =
             (IF all_audit[i].top_sim <= NO_MATCH_THR
              THEN "NO_MATCH" ELSE "HUMAN_REVIEW")

\* a low-similarity row routed to HUMAN_REVIEW under the configured constants
C4_Witness ==
  /\ HUMAN_REVIEW_THR = DefaultHumanReviewThr
  /\ \E i \in Rows :
       /\ LowSimRow(i)
       /\ all_audit[i].top_sim > NO_MATCH_THR
       /\ all_results[i].status = "HUMAN_REVIEW"

MarginRule(i) ==
  /\ Len(all_audit[i].top_candidates) >= 2
  /\ all_audit[i].margin >= SIM_GAP

\* C5: a variable with top similarity >= MIN_SIM, at least two candidates and
\* margin >= SIM_GAP gets best_match = id of the top-ranked index entry,
\* confidence = min(0.99, top similarity), status = the bucket of that
\* confidence, method AUTO_MARGIN, and reason_llm is not called.
C5_AutoMargin ==
  \A i \in Rows :
    (ReachedLookup(i) /\ all_audit[i].top_sim >= MIN_SIM /\ MarginRule(i)) =>
      /\ all_audit[i].top_sim = MaxSim(i)
      /\ \E k \in DOMAIN onto_ids :
           /\ all_results[i].best_match = onto_ids[k]
           /\ call_log[i].sims[k] = all_audit[i].top_sim
      /\ all_results[i].best_match = all_audit[i].top_candidates[1].id
      /\ all_results[i].confidence =
           (IF all_audit[i].top_sim > AutoConfCap
            THEN AutoConfCap ELSE all_audit[i].top_sim)
      /\ Rank(all_results[i].status) =
           (IF all_results[i].confidence <= NO_MATCH_THR THEN 0
            ELSE IF all_results[i].confidence <= HUMAN_REVIEW_THR THEN 1 ELSE 2)
      /\ all_results[i].status \in {"NO_MATCH", "HUMAN_REVIEW", "ACCEPT"}
      /\ all_audit[i].method = "AUTO_MARGIN"
      /\ call_log[i].llm_calls = 0

\* a margin row whose top similarity is 1.0, capped to 0.99
C5_Witness ==
  \E i \in Rows :
    /\ all_audit[i].method = "AUTO_MARGIN"
    /\ all_audit[i].top_sim > AutoConfCap
    /\ all_results[i].confidence = AutoConfCap
    /\ all_results[i].best_match # ""

NotGated(name) == NormOf(name) \notin skip_set /\ ~IsOOD(name)

\* the candidates passed to reason_llm are the top-K of the index for qvec
IsTopK(args, sims) ==
  LET n == Len(sims)
  IN  /\ n = Len(onto_vecs)
      /\ Len(args) = (IF Len(onto_vecs) < TOP_K THEN Len(onto_vecs) ELSE TOP_K)
      /\ \A k \in 1..(Len(args) - 1) : args[k].sim >= args[k + 1].sim
      /\ Cardinality({ args[k].id : k \in DOMAIN args }) = Len(args)
      /\ \A k \in DOMAIN args :
           \E j \in DOMAIN onto_ids :
             /\ onto_ids[j] = args[k].id
             /\ onto_txts[j] = args[k].text
             /\ sims[j] = args[k].sim
      /\ \A j \in DOMAIN onto_ids :
           (\A k \in DOMAIN args : args[k].id # onto_ids[j]) =>
             sims[j] <= args[Len(args)].sim

\* C6: reason_llm is called for a variable exactly when it is not
\* skip-listed, not out of domain, has top similarity >= MIN_SIM and fails the
\* margin rule; then it is called once, with the top-K candidates, and the
\* row has the verdict's confidence, the bucket of that confidence as status
\* and audit method LLM.
C6_LlmEscalation ==
  /\ \A i \in Rows :
       /\ call_log[i].llm_calls \in {0, 1}
       /\ call_log[i].llm_calls = 1 <=>
            /\ NotGated(all_results[i].original_name)
            /\ all_audit[i].top_sim >= MIN_SIM
            /\ ~MarginRule(i)
       /\ call_log[i].llm_calls = 1 =>
            /\ all_audit[i].top_sim = MaxSim(i)
            /\ IsTopK(call_log[i].llm_args, call_log[i].sims)
            /\ all_audit[i].top_candidates = Compact(call_log[i].llm_args)
            /\ all_audit[i].method = "LLM"
            /\ (call_log[i].verdict.confidence.t = "num" =>
                  all_results[i].confidence = call_log[i].verdict.confidence.n)
            /\ (call_log[i].verdict.confidence.t \in {"missing", "null"} =>
                  all_results[i].confidence = 0)
            /\ Rank(all_results[i].status) =
                 (IF all_results[i].confidence <= NO_MATCH_THR THEN 0
                  ELSE IF all_results[i].confidence <= HUMAN_REVIEW_THR THEN 1
                  ELSE 2)
            /\ all_results[i].status \in {"NO_MATCH", "HUMAN_REVIEW", "ACCEPT"}
  /\ (pc \in {"llm", "verdict"} =>
        /\ cur.llm_calls = 1
        /\ NotGated(cur.name)
        /\ cur.top_sim >= MIN_SIM
        /\ ~(Len(cur.top) >= 2 /\ cur.margin >= SIM_GAP))
  /\ (pc \in {"embed", "route"} => cur.llm_calls = 0)

\* an LLM row for a single-candidate index whose margin alone would pass
\* SIM_GAP, carrying the verdict's confidence
C6_Witness ==
  \E i \in Rows :
    /\ call_log[i].llm_calls = 1
    /\ Len(call_log[i].llm_args) = 1
    /\ all_audit[i].margin >= SIM_GAP
    /\ call_log[i].verdict.confidence.t = "num"
    /\ all_results[i].confidence > HUMAN_REVIEW_THR
    /\ all_results[i].status = "ACCEPT"

ExpectedMethod(i) ==
  IF NormOf(all_results[i].original_name) \in skip_set THEN "SKIP_LIST"
  ELSE IF IsOOD(all_results[i].original_name) THEN "OOD_GATE"
  ELSE IF MaxSim(i) < MIN_SIM THEN "LOW_SIM"
  ELSE IF MarginRule(i) THEN "AUTO_MARGIN"
  ELSE "LLM"

\* C7: the audit method of every variable is the first rule, in the order
\* skip-list, OOD gate, low similarity, margin, LLM, whose condition holds.
C7_PriorityOrder ==
  \A i \in Rows :
    /\ all_audit[i].method = ExpectedMethod(i)
    /\ (Routed(i) => all_audit[i].top_sim = MaxSim(i))

\* a skip-listed name that is also out of domain, logged as SKIP_LIST, and a
\* low-similarity row whose margin passes SIM_GAP
C7_Witness ==
  /\ \E i \in Rows :
       /\ IsOOD(all_results[i].original_name)
       /\ all_audit[i].method = "SKIP_LIST"
  /\ \E j \in Rows :
       /\ all_audit[j].method = "LOW_SIM"
       /\ MarginRule(j)

ExtractedOf(f) ==
  LET e == extract_fmu_variable_names(ttl_files[f])
  IN  { e[k] : k \in DOMAIN e }

\* C8: all_results and all_audit always have the same length, the i-th audit
\* row repeats the i-th decision row and names one of the five methods, and in
\* a completed run every extracted variable of every file has exactly one row
\* and every row belongs to an extracted variable.
C8_OneRowPerVariable ==
  /\ Len(all_audit) = Len(all_results)
  /\ \A i \in Rows :
       /\ all_audit[i].file = all_results[i].file
       /\ all_audit[i].original_name = all_results[i].original_name
       /\ all_audit[i].best_match = all_results[i].best_match
       /\ all_audit[i].confidence = all_results[i].confidence
       /\ all_audit[i].reason = all_results[i].reason
       /\ all_audit[i].status = all_results[i].status
       /\ all_audit[i].method \in
            {"SKIP_LIST", "OOD_GATE", "LOW_SIM", "AUTO_MARGIN", "LLM"}
  /\ pc = "done" =>
       /\ \A f \in DOMAIN ttl_files : \A v \in ExtractedOf(f) :
            Cardinality({ i \in Rows :
                            /\ all_results[i].file = ttl_files[f].name
                            /\ all_results[i].original_name = v }) = 1
       /\ \A i \in Rows : \E f \in DOMAIN ttl_files :
            /\ all_results[i].file = ttl_files[f].name
            /\ all_results[i].original_name \in ExtractedOf(f)
       /\ out_csv.rows = CsvRows(all_results)
       /\ audit_csv.rows = CsvRows(all_audit)

\* a completed run with a skipped and a routed variable in two files
C8_Witness ==
  /\ pc = "done"
  /\ Len(all_results) = 2
  /\ all_results[1].file # all_results[2].file
  /\ \E i \in Rows : all_audit[i].method = "SKIP_LIST"
  /\ \E i \in Rows : Routed(i)

\* C9 as stated: any two decision rows with equal confidence have equal
\* status.
C9_StatusByConfidence ==
  \A i \in Rows : \A j \in Rows :
    all_results[i].confidence = all_results[j].confidence =>
      all_results[i].status = all_results[j].status

\* C9 amended: a row that is not a skip-list row has the bucket of its
\* confidence as status, so two such rows with equal confidence have equal
\* status; a skip-list row has confidence 0.0 and status
\* SKIPPED_NOT_IN_STANDARD.
C9_StatusByConfidenceUnlessSkipped ==
  /\ \A i \in Rows :
       IF all_audit[i].method = "SKIP_LIST"
       THEN /\ all_results[i].status = "SKIPPED_NOT_IN_STANDARD"
            /\ all_results[i].confidence = 0
       ELSE /\ all_results[i].status \in {"NO_MATCH", "HUMAN_REVIEW", "ACCEPT"}
            /\ Rank(all_results[i].status) =
                 (IF all_results[i].confidence <= NO_MATCH_THR THEN 0
                  ELSE IF all_results[i].confidence <= HUMAN_REVIEW_THR THEN 1
                  ELSE 2)
  /\ \A i \in Rows : \A j \in Rows :
       (/\ all_audit[i].method # "SKIP_LIST"
        /\ all_audit[j].method # "SKIP_LIST"
        /\ all_results[i].confidence = all_results[j].confidence) =>
         all_results[i].status = all_results[j].status

\* two rows of different methods, neither skipped, with equal confidence
C9_Witness ==
  \E i \in Rows : \E j \in Rows :
    /\ all_audit[i].method = "LLM"
    /\ all_audit[j].method \in {"OOD_GATE", "LOW_SIM", "AUTO_MARGIN"}
    /\ all_results[i].confidence = all_results[j].confidence
    /\ all_results[i].status = all_results[j].status

\* C10 as stated: a row of method SKIP_LIST, OOD_GATE, LOW_SIM or AUTO_MARGIN
\* with best_match "" has confidence 0.0.
C10_EmptyMatchZeroConfidence ==
  \A i \in Rows :
    (/\ all_audit[i].method \in {"SKIP_LIST", "OOD_GATE", "LOW_SIM", "AUTO_MARGIN"}
     /\ all_results[i].best_match = "") =>
      all_results[i].confidence = 0

\* C10 amended: a SKIP_LIST or OOD_GATE row has best_match "" and confidence
\* 0.0; a LOW_SIM row has best_match "" and its top similarity as confidence.
C10_EmptyMatchConfidence ==
  \A i \in Rows :
    /\ all_audit[i].method \in {"SKIP_LIST", "OOD_GATE"} =>
         /\ all_results[i].best_match = ""
         /\ all_results[i].confidence = 0
    /\ all_audit[i].method = "LOW_SIM" =>
         /\ all_results[i].best_match = ""
         /\ all_results[i].confidence = all_audit[i].top_sim
         /\ all_audit[i].top_sim = MaxSim(i)

\* a low-similarity row with best_match "" and a non-zero confidence, next
\* to a gated row
C10_Witness ==
  /\ \E i \in Rows :
       /\ all_audit[i].method = "LOW_SIM"
       /\ all_results[i].best_match = ""
       /\ all_results[i].confidence # 0
  /\ \E j \in Rows : all_audit[j].method \in {"SKIP_LIST", "OOD_GATE"}

\* C11: every row of method SKIP_LIST, OOD_GATE, LOW_SIM or AUTO_MARGIN has a
\* confidence in [0,1], whatever similarities in [-1,1] the index returns.
C11_ConfidenceInUnitRange ==
  \A i \in Rows :
    all_audit[i].method \in {"SKIP_LIST", "OOD_GATE", "LOW_SIM", "AUTO_MARGIN"} =>
      /\ all_results[i].confidence >= 0
      /\ all_results[i].confidence <= 100

\* C12: when every attempt of an embed_text call has failed with a retryable
\* outcome (429, another non-200 status, a network exception), the call
\* returns the all-zero vector of dimension dim to run_multifile and does
\* not raise; it returns nothing else while attempts remain.
C12_ExhaustedReturnsZeros ==
  [][ /\ (pc = "embed" /\ attempt = MaxAttempts) =>
           /\ cur.status \in {"429", "exception", "other"}
           /\ pc' = "route"
           /\ Len(cur'.qvec) = Dim
           /\ \A k \in 1..Dim : cur'.qvec[k] = 0
           /\ cur'.sim_calls = 1
      /\ (pc = "embed" /\ attempt < MaxAttempts /\ attempt' = attempt + 1) =>
           /\ pc' = "embed"
           /\ cur'.status \in {"429", "exception", "other"}
    ]_vars

\* the zero vector has come back from a call whose attempts all failed
C12_Witness ==
  /\ pc = "route"
  /\ attempt = MaxAttempts
  /\ cur.status \in {"429", "exception", "other"}
  /\ cur.qvec = Zeros
  /\ cur.embed_calls = 1

\* C13: in embed_text and in reason_llm alike, a request answered 403 ends
\* the call by raising: the attempt counter does not advance and no back-off
\* is slept, no vector is looked up and no verdict is returned, no row is
\* appended, nothing is cached or written, and run_multifile takes no
\* further step.
C13_ForbiddenAborts ==
  [][ /\ pc # "aborted"
      /\ cur'.status = "403" =>
           /\ pc \in {"embed", "llm"}
           /\ api_calls' = api_calls + 1
           /\ pc' = "aborted"
           /\ attempt' = attempt
           /\ slept' = slept
           /\ EMBED_CACHE' = EMBED_CACHE
           /\ cur'.qvec = cur.qvec
           /\ cur'.sim_calls = cur.sim_calls
           /\ cur'.llm = cur.llm
           /\ all_results' = all_results
           /\ all_audit' = all_audit
           /\ ~out_csv'.written
           /\ ~audit_csv'.written
    ]_vars

\* reason_llm has raised on a 403 that followed retried failures, with rows
\* of earlier variables in memory
C13_Witness ==
  /\ pc = "aborted"
  /\ cur.status = "403"
  /\ cur.llm_calls = 1
  /\ attempt > 0
  /\ all_results # <<>>
  /\ ~out_csv.written

\* the rows of a written table that belong to variable v of file f
TableRowsOf(table, f, v) ==
  { i \in DOMAIN table.rows :
      /\ table.rows[i].file = ttl_files[f].name
      /\ table.rows[i].original_name = v }

\* C14: the decision table and the audit table are written together, and
\* only by a run that has processed every file: a written table holds exactly
\* one row for every extracted variable of every file, and a run that
\* aborted has written neither table.
C14_AllOrNothing ==
  /\ out_csv.written <=> pc = "done"
  /\ audit_csv.written <=> pc = "done"
  /\ ~out_csv.written => out_csv.rows = <<>>
  /\ ~audit_csv.written => audit_csv.rows = <<>>
  /\ out_csv.written =>
       /\ Len(out_csv.rows) = Len(audit_csv.rows)
       /\ \A f \in DOMAIN ttl_files : \A v \in ExtractedOf(f) :
            /\ Cardinality(TableRowsOf(out_csv, f, v)) = 1
            /\ Cardinality(TableRowsOf(audit_csv, f, v)) = 1
       /\ \A i \in DOMAIN out_csv.rows : \E f \in DOMAIN ttl_files :
            /\ out_csv.rows[i].file = ttl_files[f].name
            /\ out_csv.rows[i].original_name \in ExtractedOf(f)

\* both tables written with the rows of two files, one of them decided by
\* the LLM
C14_Witness ==
  /\ out_csv.written
  /\ audit_csv.written
  /\ Len(out_csv.rows) = 2
  /\ out_csv.rows[1].file # out_csv.rows[2].file
  /\ \E i \in DOMAIN audit_csv.rows : audit_csv.rows[i].method = "LLM"

\* the rows of earlier embed_text calls with the trimmed text of query
EarlierCalls(query) ==
  { i \in Rows :
      /\ call_log[i].embed_calls = 1
      /\ Strip(QueryOf(all_results[i].original_name)) = Strip(query) }

\* a step that enters embed_text
EntersEmbed == pc = "loop" /\ cur'.embed_calls = 1

\* C15 as stated: a call of embed_text with the trimmed text of an earlier
\* call of the run issues no request and returns the vector the earlier call
\* returned.
C15_NoSecondRequest ==
  [][ EntersEmbed =>
        \A i \in EarlierCalls(cur'.query) :
          /\ pc' = "route"
          /\ api_calls' = api_calls
          /\ cur'.qvec = call_log[i].qvec
    ]_vars

\* C15 amended: a 200 answer stores its vector under the trimmed text and the
\* entries of the cache never change, so a call whose trimmed text has been
\* answered 200 earlier in the run issues no request and returns that
\* vector; a call that ran out of attempts stores nothing, and a call whose
\* text is not stored goes on to issue requests.
C15_CachedAfterOk ==
  [][ /\ \A e \in EMBED_CACHE : e \in EMBED_CACHE'
      /\ \A e1 \in EMBED_CACHE' : \A e2 \in EMBED_CACHE' :
           e1.key = e2.key => e1 = e2
      /\ (pc = "embed" /\ cur'.status = "200") =>
           [key |-> Strip(cur.query), vec |-> cur'.qvec] \in EMBED_CACHE'
      /\ (pc = "embed" /\ cur'.status # "200") => EMBED_CACHE' = EMBED_CACHE
      /\ EntersEmbed =>
           /\ \A e \in EMBED_CACHE :
                e.key = Strip(cur'.query) =>
                  /\ pc' = "route"
                  /\ api_calls' = api_calls
                  /\ cur'.qvec = e.vec
           /\ (\A e \in EMBED_CACHE : e.key # Strip(cur'.query)) =>
                pc' = "embed"
    ]_vars

\* a second call with the text of an earlier row has returned from the cache
C15_Witness ==
  /\ pc = "route"
  /\ cur.embed_calls = 1
  /\ cur.status = "none"
  /\ EarlierCalls(cur.query) # {}
  /\ \E e \in EMBED_CACHE : e.key = Strip(cur.query) /\ e.vec = cur.qvec

\* the positions of a piece in a message content
Positions(content, ch) == { i \in DOMAIN content : content[i] = ch }

\* the content holds one JSON object from its first "{" to its last "}"
HoldsObject(content) ==
  /\ Positions(content, "{") # {}
  /\ Positions(content, "}") # {}
  /\ LET first == CHOOSE i \in Positions(content, "{") :
                    \A j \in Positions(content, "{") : i <= j
         last == CHOOSE i \in Positions(content, "}") :
                   \A j \in Positions(content, "}") : j <= i
     IN  /\ first < last
         /\ last - first <= 2
         /\ \A k \in (first + 1)..(last - 1) : content[k] = "v"

\* C16: a 200 answer whose message content holds no parseable JSON object
\* from its first "{" to its last "}" (no braces, a "}" before the only "{",
\* two objects, text between the braces) makes reason_llm return at once,
\* with no further attempt and no sleep, the verdict with best_match "",
\* confidence 0.0 and reason "LLM parse error".
C16_ParseFailureVerdict ==
  [][ (pc = "llm" /\ cur'.status = "200" /\ ~HoldsObject(cur'.content)) =>
        /\ pc' = "verdict"
        /\ api_calls' = api_calls + 1
        /\ attempt' = attempt
        /\ slept' = 0
        /\ cur'.llm.best_match = JStr("")
        /\ cur'.llm.confidence = JNum(0)
        /\ cur'.llm.reason = JStr("LLM parse error")
    ]_vars

\* reason_llm has returned the parse-failure verdict for a content whose
\* last "}" comes before its first "{", after a retried failure
C16_Witness ==
  /\ pc = "verdict"
  /\ cur.status = "200"
  /\ cur.content = <<"}", "t", "{">>
  /\ ~HoldsObject(cur.content)
  /\ cur.llm = Verdict(JStr(""), JNum(0), JStr("LLM parse error"))
  /\ attempt > 0

\* a member the JSON object lacks or carries as null
Lacking(x) == x.t \in {"missing", "null"}

Abstains(v, text) ==
  /\ v.best_match = JStr("")
  /\ v.confidence = JNum(0)
  /\ v.reason = JStr(text)

OtherAnswers == { k \in DOMAIN probe.outcomes : probe.outcomes[k] = "other" }

\* C19 as stated: fed any sequence of 429 answers, other non-200 answers and
\* network exceptions, embed_text and reason_llm have made the same number
\* of attempts and slept the same back-off durations when they have given up.
C19_SamePolicy ==
  (probe.embed.returned /\ probe.llm.returned) =>
    /\ probe.embed.attempt = probe.llm.attempt
    /\ probe.embed.sleeps = probe.llm.sleeps

\* C19 amended: fed a sequence of 429 answers and network exceptions only,
\* the two loops make the same attempts, sleep min(60, BACKOFF * 2^attempt)
\* after each and give up together after MAX_RETRIES + 5 attempts; at the
\* first answer of another status reason_llm returns without sleeping, while
\* embed_text sleeps min(30, BACKOFF * (attempt + 1)) and goes on.
C19_SamePolicyForTransient ==
  LET n == Len(probe.outcomes)
  IN  /\ probe.embed.attempt = n
      /\ Len(probe.embed.sleeps) = n
      /\ probe.embed.returned <=> n = MaxAttempts
      /\ OtherAnswers = {} =>
           /\ probe.llm = probe.embed
           /\ \A k \in 1..n : probe.llm.sleeps[k] = ExpBackoff(k - 1)
      /\ OtherAnswers # {} =>
           LET k == CHOOSE i \in OtherAnswers : \A j \in OtherAnswers : i <= j
           IN  /\ probe.llm.returned
               /\ probe.llm.attempt = k
               /\ probe.llm.sleeps = SubSeq(probe.embed.sleeps, 1, k - 1)
               /\ probe.embed.sleeps[k] = LinearWait(k - 1)

\* both loops have given up after MAX_RETRIES + 5 rate-limited or failed
\* requests, the last sleeps capped
C19_Witness ==
  /\ Len(probe.outcomes) = MaxAttempts
  /\ OtherAnswers = {}
  /\ \E k \in DOMAIN probe.outcomes : probe.outcomes[k] = "429"
  /\ \E k \in DOMAIN probe.outcomes : probe.outcomes[k] = "exception"
  /\ probe.embed.returned /\ probe.llm.returned
  /\ probe.llm.sleeps = probe.embed.sleeps
  /\ probe.llm.sleeps[MaxAttempts] = BackoffCap

\* row i belongs to a variable for which embed_text returned np.zeros(dim)
Degraded(i) == call_log[i].embed_calls = 1 /\ call_log[i].qvec = Zeros

\* C20: a variable whose embed_text call degraded to the zero vector has
\* similarity 0 to every index entry, and its row is the low-similarity row:
\* method LOW_SIM, best_match "", confidence 0.0, status NO_MATCH, with
\* reason_llm not called.
C20_ZeroVectorIsNoMatch ==
  \A i \in Rows :
    Degraded(i) =>
      /\ Len(call_log[i].sims) = Len(onto_vecs)
      /\ \A k \in DOMAIN call_log[i].sims : call_log[i].sims[k] = 0
      /\ all_audit[i].top_sim = 0
      /\ all_audit[i].method = "LOW_SIM"
      /\ all_results[i].best_match = ""
      /\ all_results[i].confidence = 0
      /\ all_results[i].status = "NO_MATCH"
      /\ call_log[i].llm_calls = 0

\* the row of a degraded variable, looked up in an index of several entries
C20_Witness ==
  \E i \in Rows :
    /\ Degraded(i)
    /\ Len(call_log[i].sims) > 1
    /\ all_audit[i].method = "LOW_SIM"
    /\ all_results[i].status = "NO_MATCH"

\* C21: the candidate list of a query holds min(TOP_K, number of index
\* entries) entries in descending order of similarity, each with the id and
\* text of its index position, and of two entries with equal similarity the
\* one with the smaller index position comes first.
C21_TopKSmallerIndexFirst ==
  cur.sim_calls = 1 =>
    /\ Len(cur.top) = Min(TOP_K, Len(onto_vecs))
    /\ Len(cur.idx) = Len(cur.top)
    /\ \A k \in DOMAIN cur.top :
         /\ cur.top[k].id = onto_ids[cur.idx[k]]
         /\ cur.top[k].text = onto_txts[cur.idx[k]]
         /\ cur.top[k].sim = cur.sims[cur.idx[k]]
    /\ \A k \in DOMAIN cur.idx : \A l \in DOMAIN cur.idx :
         k < l =>
           \/ cur.sims[cur.idx[k]] > cur.sims[cur.idx[l]]
           \/ /\ cur.sims[cur.idx[k]] = cur.sims[cur.idx[l]]
              /\ cur.idx[k] < cur.idx[l]

\* the headers load_skip_set_required accepts, compared in lower case
SkipListHeaders ==
  { <<"o","r","i","g","i","n","a","l","_","n","a","m","e">>,
    <<"o","e","m","_","v","a","r","i","a","b","l","e">>,
    <<"v","a","r","i","a","b","l","e">>,
    <<"n","a","m","e">> }

\* the skip-list file is missing or has none of the accepted headers
SkipListUnusable ==
  \/ ~skip_csv.exists
  \/ \A i \in DOMAIN skip_csv.columns :
       LowerStr(skip_csv.columns[i]) \notin SkipListHeaders

\* C22: when the skip-list file is missing or has no column named
\* original_name, oem_variable, variable or name (in any letter case), the
\* run aborts at its first step: no file is opened for extraction, no
\* request is made, no row is appended and nothing is written.
C22_SkipListRequired ==
  SkipListUnusable =>
    /\ pc \in {"start", "aborted"}
    /\ skip_set = {}
    /\ fi = 0
    /\ kept = <<>> /\ skipped = <<>>
    /\ cur = CurIdle
    /\ api_calls = 0
    /\ all_results = <<>> /\ all_audit = <<>>
    /\ ~out_csv.written /\ ~audit_csv.written

\* a run over files with variables has aborted on a skip list that exists
\* but has no accepted header
C22_Witness ==
  /\ pc = "aborted"
  /\ skip_csv.exists
  /\ SkipListUnusable
  /\ \E f \in DOMAIN ttl_files : ttl_files[f].vars # <<>>
  /\ api_calls = 0

\* the three index artifacts disagree in length
StoreMismatch ==
  \/ Len(onto_store.vecs) # Len(onto_store.ids)
  \/ Len(onto_store.vecs) # Len(onto_store.txts)
  \/ Len(onto_store.ids) # Len(onto_store.txts)

\* C23: when the index artifacts disagree in length the run fails while
\* loading: no file is taken up, no request is made, no row is appended and
\* nothing is written.
C23_MismatchFailsAtLoad ==
  StoreMismatch =>
    /\ pc \in {"start", "aborted"}
    /\ fi = 0
    /\ api_calls = 0
    /\ all_results = <<>>
    /\ ~out_csv.written

\* C24: the variables are processed one after the other. Requests are made
\* only inside embed_text and reason_llm; embed_text is entered only from
\* the loop head, with the row of the previous variable appended and nothing
\* pending; reason_llm is entered only once embed_text has returned for the
\* same variable; neither call is entered a second time for a variable; and
\* the loop head is reached again only by appending the row of the current
\* variable.
C24_StrictlySequential ==
  [][ /\ api_calls' # api_calls =>
           /\ pc \in {"embed", "llm"}
           /\ api_calls' = api_calls + 1
      /\ (pc' = "embed" /\ pc # "embed") =>
           /\ pc = "loop"
           /\ cur = CurIdle
           /\ cur'.embed_calls = 1 /\ cur'.llm_calls = 0
           /\ all_results' = all_results
      /\ (pc' = "llm" /\ pc # "llm") =>
           /\ pc = "route"
           /\ cur.embed_calls = 1 /\ cur.sim_calls = 1 /\ cur.llm_calls = 0
           /\ cur'.llm_calls = 1
           /\ cur'.name = cur.name
           /\ api_calls' = api_calls
      /\ pc = "embed" => pc' \in {"embed", "route", "aborted"}
      /\ pc = "route" => pc' \in {"loop", "llm"}
      /\ pc = "llm" => pc' \in {"llm", "verdict", "aborted"}
      /\ pc = "verdict" => pc' \in {"loop", "aborted"}
      /\ (pc \in {"embed", "route", "llm", "verdict"} /\ pc' # "loop") =>
           /\ cur'.name = cur.name
           /\ all_results' = all_results
      /\ (pc \in {"route", "verdict"} /\ pc' = "loop") =>
           /\ Len(all_results') = Len(all_results) + 1
           /\ all_results'[Len(all_results')].original_name = cur.name
           /\ call_log'[Len(all_results')].embed_calls = 1
           /\ call_log'[Len(all_results')].llm_calls =
                (IF pc = "verdict" THEN 1 ELSE 0)
           /\ cur' = CurIdle
    ]_vars

\* reason_llm is retrying for a variable whose embed_text call has returned,
\* the row of an earlier routed variable being appended already
C24_Witness ==
  /\ pc = "llm"
  /\ attempt > 0
  /\ cur.embed_calls = 1 /\ cur.sim_calls = 1 /\ cur.llm_calls = 1
  /\ \E i \in Rows : call_log[i].embed_calls = 1
  /\ \A i \in Rows : all_results[i].original_name # cur.name

\* C25: a second run over the same files, skip list and index, the services
\* answering every request as they answered it before, writes the decision
\* table the first run wrote, row for row, whether it starts with the
\* embedding cache the first run filled or with an empty one.
C25_RerunSameTable ==
  (first_run.done /\ pc = "done") =>
    /\ out_csv.rows = first_run.out
    /\ CsvRows(all_results) = first_run.out

\* a second run of the same process has written its table after taking a
\* vector from the cache the first run filled for a row decided by the LLM
C25_Witness ==
  /\ first_run.done /\ first_run.warm
  /\ pc = "done"
  /\ Len(out_csv.rows) > 1
  /\ \E i \in DOMAIN all_audit :
       /\ all_audit[i].method = "LLM"
       /\ \E e \in EMBED_CACHE : e.vec = call_log[i].qvec
  /\ api_calls < 2 * MaxAttempts

C27_CallsEndAndRunTerminates ==
  /\ [](attempt <= MaxAttempts /\ faults > 0)
  /\ [][ /\ api_calls' # api_calls =>
              /\ pc \in {"embed", "llm"}
              /\ attempt < MaxAttempts
              /\ \/ attempt' = attempt + 1 /\ pc' = pc
                 \/ pc' # pc
         /\ (pc \in {"embed", "llm"} /\ attempt = MaxAttempts) =>
              /\ pc' \notin {"embed", "llm"}
              /\ api_calls' = api_calls
     ]_vars
  /\ [](pc \in {"embed", "llm"} => <>(pc \notin {"embed", "llm"}))
  /\ <>(~Running)

\* A run has written its tables after one call of embed_text that was
\* answered at its last attempt and one call of reason_llm whose attempts
\* all failed.
C27_Witness ==
  /\ pc = "done"
  /\ out_csv.written
  /\ Len(all_results) = 1
  /\ api_calls = 2 * MaxAttempts
  /\ faults = RerunFaults - (2 * MaxAttempts - 1)

(***************************************************************************)
(* C28: in embed_text the sleep after the attempt numbered a is            *)
(* min(60, BACKOFF * 2^a) seconds after a 429 or a network exception and   *)
(* min(30, BACKOFF * (a + 1)) seconds after another status; no sleep is    *)
(* longer than 60 seconds, and at the same attempt the wait after another  *)
(* status is never longer than the wait after a 429.                       *)
(***************************************************************************)
C28_BackoffSchedule ==
  \A k \in 1..Len(probe.embed.sleeps) :
    LET a == k - 1
        after429 == IF BACKOFF * 2^a < 60 THEN BACKOFF * 2^a ELSE 60
        afterOther == IF BACKOFF * (a + 1) < 30 THEN BACKOFF * (a + 1) ELSE 30
    IN  /\ probe.outcomes[k] \in {"429", "exception"} =>
             probe.embed.sleeps[k] = after429
        /\ probe.outcomes[k] = "other" => probe.embed.sleeps[k] = afterOther
        /\ probe.embed.sleeps[k] <= 60
        /\ afterOther <= after429
        /\ LinearWait(a) <= ExpBackoff(a)

\* embed_text has slept the capped 60 seconds after a 429 and the capped
\* 30 seconds after another status, and has used up its attempts.
C28_Witness ==
  /\ probe.embed.returned
  /\ Len(probe.embed.sleeps) = MaxAttempts
  /\ \E k \in 1..MaxAttempts :
       probe.outcomes[k] = "429" /\ probe.embed.sleeps[k] = 60
  /\ \E k \in 1..MaxAttempts :
       probe.outcomes[k] = "other" /\ probe.embed.sleeps[k] = 30

C30_NoAcceptWithoutMatch ==
  NO_MATCH_THR < HUMAN_REVIEW_THR =>
    \A i \in Rows :
      all_audit[i].method \in {"SKIP_LIST", "OOD_GATE", "LOW_SIM", "AUTO_MARGIN"} =>
        ~(all_results[i].status = "ACCEPT" /\ all_results[i].best_match = "")

====
